---- MODULE Spec2Model ----
(***************************************************************************)
(* State-machine model of the Telegram -> Dify relay in src/api/webhook.js *)
(* (RateLimiter, SessionManager, retryOperation, getDifyResponse,          *)
(* telegramApiCall, sendFormattedMessage, handleMessage, handler), of      *)
(* sendTelegramMessage of the debug variant (src/unnamed/part_000) and of  *)
(* the queue variant (src/unnamed/part_002).                               *)
(*                                                                         *)
(* The specifications share the module's variables:                        *)
(*   SpecRateLimiter  calls of RateLimiter.isAllowed as the clock advances *)
(*   SpecSessions     calls of the SessionManager methods                  *)
(*   SpecRelay        runs of handler/handleMessage, one network request   *)
(*                    (one await) per step                                 *)
(*   SpecFormatter    answer texts on their way through MessageFormatter   *)
(*   SpecGallery      the delivery of one answer with many images          *)
(*   SpecRelayLive    SpecRelay with every pending request settling        *)
(*   SpecDify         one call of getDifyResponse                          *)
(*   SpecInterleave   two runs of handleMessage for one user, interleaved  *)
(*   SpecDebug        one call of sendTelegramMessage (debug variant)      *)
(*   SpecQueue        webhook handlers and processQueue runs of the queue  *)
(*                    variant; SpecQueueFull with a backlog in the queue,  *)
(*                    SpecQueueLive with every pending step taken          *)
(***************************************************************************)
EXTENDS Integers, Sequences, FiniteSets, TLC

\* ------------------------------------------------------------------------
\* Bounds of the model
\* ------------------------------------------------------------------------
\* the clock takes the values 0, TickStep, ..., MaxTicks * TickStep
MaxTicks == 2
\* isAllowed calls explored by SpecRateLimiter beyond the ceiling
MaxExtraCalls == 2
\* SpecSessions: the clock takes the values 0 .. MaxSessionTicks * SessionTickStep
MaxSessionTicks == 2
\* SpecSessions: the requestCount values of the stored sessions add up to at
\* most this
MaxRequestCount == 2
\* SpecRelay: webhook calls handled one after the other
MaxRuns == 2
\* SpecRelay: largest number of images in an AI answer
MaxImages == 2
\* SpecRelay: firings of the typing interval explored per run
MaxTypingTicks == 1
\* SpecDify: user messages are up to this many characters shorter or longer
\* than QueryLimit
MaxOver == 3
\* SpecQueue: number of messages the webhook of the queue variant receives
MaxMessages == 2
\* SpecQueue: number of times the clock advances
MaxQueueTicks == 1
\* SpecGallery: largest number of images in an AI answer
ManyImages == 12
\* SpecGallery: requests the chat platform fails while one answer is delivered
MaxFailures == 2
\* SpecFormatter: an answer text is made of at most this many pieces
MaxPieces == 3
\* SpecFormatter: or of at most this many characters of MarkerChars
MaxMarkers == 4

\* ------------------------------------------------------------------------
\* Program constants
\* ------------------------------------------------------------------------
windowSize == 60000
maxRequests == 20
sessionTTL == 86400000
RETRY_ATTEMPTS == 2
RETRY_DELAY == 1000
\* getDifyResponse: "if (userMessage.length > 4000)"
QueryLimit == 4000
\* sendFormattedMessage: "if (caption.length > 1000)"
CaptionLimit == 1000
\* this.maxSessions: 10000 in the source, scaled down so that a full store
\* (and with it evictOldestSession) is within reach of the model
maxSessions == 2

\* Inputs: two real user ids and the absent id (message.from missing)
Users == {1, 2}
NoUser == 0
UserIds == Users \cup {NoUser}
\* an id that is not a number: the string "7" where the number is expected.
\* Ids of type string are written as negative numbers, so that ids of both
\* types can be held in one set and compared.
NonNumericIds == {-7}
\* typeof userId
typeofUserId(u) == IF u \in NonNumericIds THEN "string" ELSE "number"
\* SpecSessions needs one user more than the store can hold
SessionUsers == 1 .. (maxSessions + 1)
\* conversation ids the AI backend hands out; "" is the empty token
Tokens == {"abc", "xyz"}
\* the conversation ids SpecSessions passes to updateUserSession
SessionTokens == {"abc", ""}

\* The clock moves in steps of half a window, so that instants of one window
\* fall on two ticks and an instant is exactly windowSize old two ticks later.
TickStep == windowSize \div 2
\* SpecSessions moves the clock in steps of one TTL: a session is exactly
\* sessionTTL old after one step and older than it after two
SessionTickStep == sessionTTL

VARIABLES
  now,        \* Date.now()
  requests,   \* RateLimiter.requests: user -> sequence of admitted instants
  rlCalls,    \* number of isAllowed calls made (bounds SpecRateLimiter)
  winStart,   \* observer: instant of the call that opened the user's window, or -1
  winCalls,   \* observer: isAllowed calls of the user inside that window
  lastOk,     \* observer: what the user's latest isAllowed call returned
  sessions,   \* SessionManager.sessions: the Map's entries in insertion order
  smLast,     \* observer: the latest SessionManager call and how it ended
  run,        \* the webhook call being handled: handler + handleMessage
              \* (SpecInterleave: the two runs; SpecDebug: the call of
              \* sendTelegramMessage; SpecQueue: the KV store, the handlers
              \* and the processQueue runs)
  runs,       \* number of webhook calls started (bounds SpecRelay)
  fmt         \* an AI answer text on its way through MessageFormatter

rlVars == <<requests, rlCalls, winStart, winCalls, lastOk>>
smVars == <<sessions, smLast>>
relayVars == <<run, runs>>
fmtVars == <<fmt>>
vars == <<now, rlVars, smVars, relayVars, fmtVars>>

\* no SessionManager call made yet
NoCall == "none"

\* no webhook call in progress
Idle ==
  [pc |-> "idle", status |-> 0, result |-> "none", body |-> "none",
   userId |-> NoUser, isBusiness |-> FALSE, chatType |-> "private",
   timer |-> FALSE, ticks |-> 0, attempt |-> 1,
   hadSession |-> FALSE, tokenBefore |-> "", conversationId |-> "",
   difyLog |-> <<>>, error |-> "none",
   phase |-> "none", proc |-> [text |-> "", long |-> FALSE, images |-> 0,
                               hasImages |-> FALSE, useMarkdown |-> FALSE, bad |-> FALSE],
   idx |-> 1, sent |-> <<>>, sfmThrew |-> FALSE,
   config |-> TRUE, messageLength |-> 0, queryLength |-> 0]

\* ------------------------------------------------------------------------
\* MessageFormatter.  A text is a sequence of characters, each written as a
\* string; characters that cannot be written inside a string here have names
\* ("<backtick>", "<clipboard>", "<dotless-i>", ...).  A regular expression
\* of the source is a pair of operators: where a match that starts at
\* position i ends, and what replaces it.
\* ------------------------------------------------------------------------
Backtick == "<backtick>"
\* the emoji formatForTelegram puts in front of a section header
HeaderEmoji == {"<clipboard>", "<warning>", "<wine>"}
Plate == "<plate>"

UpperCase ==
  <<"A", "B", "C", "D", "E", "F", "G", "H", "I", "J", "K", "L", "M", "N",
    "O", "P", "Q", "R", "S", "T", "U", "V", "W", "X", "Y", "Z">>
LowerCase ==
  <<"a", "b", "c", "d", "e", "f", "g", "h", "i", "j", "k", "l", "m", "n",
    "o", "p", "q", "r", "s", "t", "u", "v", "w", "x", "y", "z">>
\* the letter a case-insensitive pattern sees
toLowerCase(c) ==
  IF \E k \in 1 .. Len(UpperCase) : UpperCase[k] = c
  THEN LowerCase[CHOOSE k \in 1 .. Len(UpperCase) : UpperCase[k] = c]
  ELSE c

\* \s
isSpace(c) == c \in {" ", "\n", "\t", "\r"}
\* a line terminator: what . does not match, and where ^ and $ match with /m
isLineEnd(c) == c \in {"\n", "\r"}
\* [a-f0-9-]
HexChars == {"a", "b", "c", "d", "e", "f", "0", "1", "2", "3", "4", "5", "6", "7", "8", "9", "-"}

\* the characters of pat stand in text from position i on
startsWithAt(text, i, pat) ==
  /\ i >= 1
  /\ i + Len(pat) - 1 <= Len(text)
  /\ SubSeq(text, i, i + Len(pat) - 1) = pat

\* the smallest and the largest of a set of positions; 0 for the empty set
least(P) == IF P = {} THEN 0 ELSE CHOOSE k \in P : \A m \in P : k <= m
greatest(P) == IF P = {} THEN 0 ELSE CHOOSE k \in P : \A m \in P : k >= m

\* the first position from i on that holds character c; 0 if there is none
firstIndex(text, c, i) == least({k \in i .. Len(text) : text[k] = c})

\* the last position that holds character c; 0 if there is none
lastIndexOf(text, c, i) == greatest({k \in 1 .. i : text[k] = c})

\* (text.match(/c/g) || []).length
countOf(text, c) == Cardinality({k \in 1 .. Len(text) : text[k] = c})

\* the character classes of the source's patterns
inClass(cls, c) ==
  CASE cls = "\\s" -> isSpace(c)
    [] cls = "[^\\s)]" -> ~isSpace(c) /\ c # ")"
    [] cls = "\\n" -> c = "\n"
    [] cls = "." -> ~isLineEnd(c)
    [] cls = "[a-f0-9-]" -> c \in HexChars

\* a greedy cls* from position i on: the position of its last character,
\* i - 1 when it matches nothing
runEnd(cls, text, i) ==
  least({k \in i .. Len(text) + 1 : k > Len(text) \/ ~inClass(cls, text[k])}) - 1

\* ^ and $ of a pattern with the m flag
lineStartAt(text, i) == i = 1 \/ isLineEnd(text[i - 1])
lineEndAt(text, p) == p = Len(text) + 1 \/ isLineEnd(text[p])

\* String.prototype.trim
trimStart(text) ==
  SubSeq(text, least({k \in 1 .. Len(text) + 1 : k > Len(text) \/ ~isSpace(text[k])}),
         Len(text))
trimEnd(text) == SubSeq(text, 1, greatest({k \in 1 .. Len(text) : ~isSpace(text[k])}))
trim(text) == trimEnd(trimStart(text))

\* text.toLowerCase(), for the patterns with the i flag
lower(text) == [k \in 1 .. Len(text) |-> toLowerCase(text[k])]

\* /!\[([^\]]*)\]\(([^)]+)\)/ at position i: the position of the closing
\* bracket of the alt text, 0 if the pattern does not match at i
imageAltEnd(text, i) ==
  IF ~startsWithAt(text, i, <<"!", "[">>) THEN 0
  ELSE LET j == firstIndex(text, "]", i + 2) IN
       IF j = 0 \/ ~startsWithAt(text, j + 1, <<"(">>) THEN 0
       ELSE LET k == firstIndex(text, ")", j + 2) IN
            IF k = 0 \/ k = j + 2 THEN 0 ELSE j

\* the same pattern: the position of the closing parenthesis, 0 without match
imageMatchEnd(text, i) ==
  LET j == imageAltEnd(text, i) IN
  IF j = 0 THEN 0 ELSE firstIndex(text, ")", j + 2)

\* match[2] of the match that starts at i
imageUrlAt(text, i) ==
  SubSeq(text, imageAltEnd(text, i) + 2, imageMatchEnd(text, i) - 1)

\* /https?:\/\/[^\s\n)]+/ at position i: the position of the match's last
\* character, 0 without match
urlMatchEnd(text, i) ==
  LET p == IF startsWithAt(text, i, <<"h", "t", "t", "p", "s", ":", "/", "/">>) THEN i + 8
           ELSE IF startsWithAt(text, i, <<"h", "t", "t", "p", ":", "/", "/">>) THEN i + 7
           ELSE 0
      e == runEnd("[^\\s)]", text, p)
  IN IF p = 0 \/ e < p THEN 0 ELSE e

\* the extensions of the first pattern of isImageUrl
ImageExtensions ==
  {<<"j", "p", "g">>, <<"j", "p", "e", "g">>, <<"p", "n", "g">>, <<"g", "i", "f">>,
   <<"w", "e", "b", "p">>, <<"s", "v", "g">>}

\* the hosts of isImageUrl's patterns
ImageDelivery ==
  <<"i", "m", "a", "g", "e", "d", "e", "l", "i", "v", "e", "r", "y", ".",
    "n", "e", "t">>
HctiPrefix ==
  <<"h", "c", "t", "i", ".", "i", "o", "/", "v", "1", "/", "i", "m", "a",
    "g", "e", "/">>
ImageHosts ==
  {
    <<"c", "l", "o", "u", "d", "i", "n", "a", "r", "y", ".", "c", "o", "m">>,
    <<"i", "m", "g", "u", "r", ".", "c", "o", "m">>,
    <<"u", "n", "s", "p", "l", "a", "s", "h", ".", "c", "o", "m">>,
    <<"p", "e", "x", "e", "l", "s", ".", "c", "o", "m">>}

\* where the text goes on after http:// or https:// at its start; 0 if it
\* starts with neither
afterScheme(t) ==
  IF startsWithAt(t, 1, <<"h", "t", "t", "p", "s", ":", "/", "/">>) THEN 9
  ELSE IF startsWithAt(t, 1, <<"h", "t", "t", "p", ":", "/", "/">>) THEN 8
  ELSE 0

\* [^\s]* from position p to the end of the text
noSpaceFrom(t, p) == \A k \in p .. Len(t) : ~isSpace(t[k])

\* imageUrlPatterns.some(pattern => pattern.test(trimmed)), for the lowered
\* text t that goes on at position p after its scheme
someImagePattern(t, p) ==
  /\ p # 0
  /\ \/ \* /^https?:\/\/[^\s]+\.(jpg|jpeg|png|gif|webp|svg)(\?[^\s]*)?$/i
        \E d \in (p + 1) .. Len(t) :
          /\ t[d] = "."
          /\ \A k \in p .. (d - 1) : ~isSpace(t[k])
          /\ \E ext \in ImageExtensions :
               /\ startsWithAt(t, d + 1, ext)
               /\ LET r == d + 1 + Len(ext) IN
                  \/ r = Len(t) + 1
                  \/ (r <= Len(t) /\ t[r] = "?" /\ noSpaceFrom(t, r + 1))
     \/ \* /^https?:\/\/imagedelivery\.net[^\s]*$/i
        startsWithAt(t, p, ImageDelivery) /\ noSpaceFrom(t, p)
     \/ \* /^https?:\/\/hcti\.io\/v1\/image\/[a-f0-9-]+$/i
        /\ startsWithAt(t, p, HctiPrefix)
        /\ p + Len(HctiPrefix) <= Len(t)
        /\ runEnd("[a-f0-9-]", t, p + Len(HctiPrefix)) = Len(t)
     \/ \* /^https?:\/\/[^\s]*(cloudinary|imgur|unsplash|pexels)\.com[^\s]*$/i
        /\ noSpaceFrom(t, p)
        /\ \E host \in ImageHosts : \E k \in p .. Len(t) : startsWithAt(t, k, host)

\* the patterns of isImageUrl on the trimmed text, letter case set aside
testImagePatterns(t) == someImagePattern(t, afterScheme(t))

\* MessageFormatter.isImageUrl(text)
isImageUrl(text) == text # <<>> /\ testImagePatterns(lower(trim(text)))

\* the section headers formatForTelegram marks with an emoji
DetayliAciklama ==
  <<"*", "D", "e", "t", "a", "y", "l", "<dotless-i>", " ", "A",
    "<c-cedilla>", "<dotless-i>", "k", "l", "a", "m", "a", ":", "*">>
AlerjenBilgisi ==
  <<"*", "A", "l", "e", "r", "j", "e", "n", " ", "B", "i", "l", "g", "i",
    "s", "i", ":", "*">>
SarapEslesmesi ==
  <<"*", "<S-cedilla>", "a", "r", "a", "p", " ", "E", "<s-cedilla>", "l",
    "e", "<s-cedilla>", "m", "e", "s", "i", " ", "<O-umlaut>", "n", "e", "r",
    "i", "s", "i", ":", "*">>
\* the menu categories of formatForTelegram
Categories ==
  {
    <<"A", "N", "A", " ", "Y", "E", "M", "E", "K", "L", "E", "R">>,
    <<"B", "A", "<S-cedilla>", "L", "A", "N", "G", "I", "<C-cedilla>", "L",
      "A", "R">>,
    <<"T", "A", "T", "L", "I", "L", "A", "R">>,
    <<"<dotted-I>", "<C-cedilla>", "E", "C", "E", "K", "L", "E", "R">>,
    <<"S", "A", "L", "A", "T", "A", "L", "A", "R">>}

\* the header of a literal-header pattern and the emoji it gets
headerOf(kind) ==
  CASE kind = "detayli" -> DetayliAciklama
    [] kind = "alerjen" -> AlerjenBilgisi
    [] kind = "sarap" -> SarapEslesmesi
emojiOf(kind) ==
  CASE kind = "detayli" -> "<clipboard>"
    [] kind = "alerjen" -> "<warning>"
    [] kind = "sarap" -> "<wine>"

\* /\*\*(.*?)\*\*/ from the opening ** on: the position of the nearest closing
\* ** on the same line, searched from position m; 0 if there is none
boldClose(text, m) ==
  least({k \in m .. Len(text) - 1 :
           /\ text[k] = "*" /\ text[k + 1] = "*"
           /\ \A j \in m .. k - 1 : ~isLineEnd(text[j])})

\* the category that stands at position i (CHOOSE: no category is the prefix
\* of another one)
categoryAt(text, i) == CHOOSE w \in Categories : startsWithAt(text, i, w)

\* /^(ANA YEMEKLER|...)\s*$/m at position i: \s* gives characters back until
\* $ matches
categoryMatchEnd(text, i) ==
  IF ~(lineStartAt(text, i) /\ \E w \in Categories : startsWithAt(text, i, w)) THEN 0
  ELSE LET a == i + Len(categoryAt(text, i))
           r == runEnd("\\s", text, a)
           ends == {p \in a .. (r + 1) : lineEndAt(text, p)}
       IN IF ends = {} THEN 0
          ELSE (CHOOSE p \in ends : \A q \in ends : q <= p) - 1

\* /^-\s+([^:]+):\s*(.+)$/m at position i: the position of the colon, 0 if the
\* pattern cannot match up to it
bulletColon(text, i) ==
  IF ~(lineStartAt(text, i) /\ startsWithAt(text, i, <<"-">>)) THEN 0
  ELSE IF ~(i + 1 <= Len(text) /\ isSpace(text[i + 1])) THEN 0
  ELSE LET c == firstIndex(text, ":", i + 1)
           r == runEnd("\\s", text, i + 1)
       IN IF c = 0 THEN 0
          \* only white space before the colon: \s+ gives one character to $1
          ELSE IF r = c - 1 /\ r < i + 2 THEN 0
          ELSE c

\* where $1 of the bullet pattern starts
bulletNameStart(text, i) ==
  LET c == bulletColon(text, i)
      r == runEnd("\\s", text, i + 1)
  IN IF r <= c - 2 THEN r + 1 ELSE r

\* where $2 of the bullet pattern starts: after the longest \s* that leaves a
\* character of the line for .+ ; 0 if there is none
bulletTextStart(text, i) ==
  LET c == bulletColon(text, i)
      q == runEnd("\\s", text, c + 1)
      starts == {s \in (c + 1) .. (q + 1) : s <= Len(text) /\ ~isLineEnd(text[s])}
  IN IF c = 0 \/ starts = {} THEN 0
     ELSE CHOOSE s \in starts : \A s2 \in starts : s2 <= s

bulletMatchEnd(text, i) ==
  LET s == bulletTextStart(text, i) IN
  IF s = 0 THEN 0 ELSE runEnd(".", text, s)

\* the position of the last character of the match of a pattern that starts
\* at position i; 0 if the pattern does not match there
matchEnd(kind, text, i) ==
  CASE kind = "markdownImage" -> imageMatchEnd(text, i)
    [] kind \in {"url", "imageUrl"} -> urlMatchEnd(text, i)
    [] kind = "newlines" ->
         \* /\n{3,}/
         LET e == runEnd("\\n", text, i) IN IF e - i + 1 >= 3 THEN e ELSE 0
    [] kind = "literalNewline" ->
         \* /\\n/
         IF startsWithAt(text, i, <<"\\", "n">>) THEN i + 1 ELSE 0
    [] kind = "bold" ->
         IF ~startsWithAt(text, i, <<"*", "*">>) THEN 0
         ELSE LET m == boldClose(text, i + 2) IN IF m = 0 THEN 0 ELSE m + 1
    [] kind \in {"detayli", "alerjen", "sarap"} ->
         IF startsWithAt(text, i, headerOf(kind)) THEN i + Len(headerOf(kind)) - 1 ELSE 0
    [] kind = "category" -> categoryMatchEnd(text, i)
    [] kind = "bullet" -> bulletMatchEnd(text, i)
    [] kind = "quote" ->
         \* /'([^']+)'/
         IF ~startsWithAt(text, i, <<"'">>) THEN 0
         ELSE LET k == firstIndex(text, "'", i + 1) IN
              IF k = 0 \/ k = i + 1 THEN 0 ELSE k
    [] kind = "emojiHeader" ->
         \* /(clipboard|warning|wine)\s*\*/
         IF ~(text[i] \in HeaderEmoji) THEN 0
         ELSE LET r == runEnd("\\s", text, i + 1) IN
              IF startsWithAt(text, r + 1, <<"*">>) THEN r + 1 ELSE 0
    [] kind = "plateHeader" ->
         \* /plate\s*\*/
         IF text[i] # Plate THEN 0
         ELSE LET r == runEnd("\\s", text, i + 1) IN
              IF startsWithAt(text, r + 1, <<"*">>) THEN r + 1 ELSE 0
    [] kind = "emptyBold" ->
         \* /\*\s*\*/
         IF text[i] # "*" THEN 0
         ELSE LET r == runEnd("\\s", text, i + 1) IN
              IF startsWithAt(text, r + 1, <<"*">>) THEN r + 1 ELSE 0
    [] kind = "emptyCode" ->
         \* /`\s*`/
         IF text[i] # Backtick THEN 0
         ELSE LET r == runEnd("\\s", text, i + 1) IN
              IF startsWithAt(text, r + 1, <<Backtick>>) THEN r + 1 ELSE 0

\* what String.prototype.replace puts in place of the match text[i .. e]
replacement(kind, text, i, e) ==
  CASE kind \in {"markdownImage", "emptyBold", "emptyCode"} -> <<>>
    [] kind = "imageUrl" ->
         LET match == SubSeq(text, i, e) IN IF isImageUrl(match) THEN <<>> ELSE match
    [] kind = "newlines" -> <<"\n", "\n">>
    [] kind = "literalNewline" -> <<"\n">>
    [] kind = "bold" -> <<"*">> \o SubSeq(text, i + 2, e - 2) \o <<"*">>
    [] kind \in {"detayli", "alerjen", "sarap"} -> <<emojiOf(kind), " ">> \o headerOf(kind)
    [] kind = "category" -> <<Plate, " ", "*">> \o categoryAt(text, i) \o <<"*">>
    [] kind = "bullet" ->
         <<"<bullet>", " ", "*">>
           \o SubSeq(text, bulletNameStart(text, i), bulletColon(text, i) - 1)
           \o <<":", "*", " ">>
           \o SubSeq(text, bulletTextStart(text, i), e)
    [] kind = "quote" -> <<Backtick>> \o SubSeq(text, i + 1, e - 1) \o <<Backtick>>
    [] kind = "emojiHeader" -> <<"\n", text[i], " ", "*">>
    [] kind = "plateHeader" -> <<"\n", Plate, " ", "*">>

\* the position from i on at which the next match of the pattern starts; 0
\* if there is none
nextMatch(kind, text, i) == least({k \in i .. Len(text) : matchEnd(kind, text, k) # 0})

\* text.replace(/pattern/g, ...) from position i on; replaceAt is the step
\* from i on when the next match starts at s (0: no more match) and ends at e
RECURSIVE replaceFrom(_, _, _)
RECURSIVE replaceAt(_, _, _, _, _)
replaceAt(kind, text, i, s, e) ==
  IF s # 0
  THEN SubSeq(text, i, s - 1) \o replacement(kind, text, s, e)
         \o replaceFrom(kind, text, e + 1)
  ELSE SubSeq(text, i, Len(text))

replaceFrom(kind, text, i) ==
  replaceAt(kind, text, i, nextMatch(kind, text, i),
            matchEnd(kind, text, nextMatch(kind, text, i)))

replaceAll(kind, text) == replaceFrom(kind, text, 1)

\* the loop "while ((match = regex.exec(text)) !== null)" from position i on:
\* the positions at which the matches start
RECURSIVE matchStarts(_, _, _)
matchStartsAt(kind, text, s) ==
  IF s # 0 THEN <<s>> \o matchStarts(kind, text, matchEnd(kind, text, s) + 1) ELSE <<>>

matchStarts(kind, text, i) == matchStartsAt(kind, text, nextMatch(kind, text, i))

\* [...new Set(urls)]: the first occurrence of every element, in order
RECURSIVE unique(_)
unique(urls) ==
  IF urls = <<>> THEN <<>>
  ELSE LET init == unique(SubSeq(urls, 1, Len(urls) - 1))
           last == urls[Len(urls)]
       IN IF \E k \in 1 .. Len(init) : init[k] = last THEN init ELSE Append(init, last)

\* the matches of a pattern that start at the given positions
matchesAt(kind, text, starts) ==
  [k \in 1 .. Len(starts) |-> SubSeq(text, starts[k], matchEnd(kind, text, starts[k]))]

\* MessageFormatter.extractImageUrls(text)
extractImageUrls(text) ==
  IF text = <<>> THEN <<>>
  ELSE SelectSeq(matchesAt("url", text, matchStarts("url", text, 1)), isImageUrl)

\* MessageFormatter.removeImageUrls(text)
removeImageUrls(text) ==
  IF text = <<>> THEN <<>>
  ELSE trim(replaceAll("newlines", replaceAll("imageUrl", text)))

\* extractMarkdownImages: match[2] of the matches that start at the given
\* positions
markdownImageUrls(text, starts) == [k \in 1 .. Len(starts) |-> imageUrlAt(text, starts[k])]

\* extractMarkdownImages from "Also check for standalone URLs" on: imageUrls
\* holds the URLs of the markdown images, cleanText is the text without them
extractStandalone(imageUrls, cleanText) ==
  [cleanText |-> trim(replaceAll("newlines", removeImageUrls(cleanText))),
   imageUrls |-> unique(imageUrls \o extractImageUrls(cleanText))]

\* MessageFormatter.extractMarkdownImages(text)
extractMarkdownImages(text) ==
  IF text = <<>> THEN [cleanText |-> <<>>, imageUrls |-> <<>>]
  ELSE extractStandalone(
         markdownImageUrls(text, matchStarts("markdownImage", text, 1)),
         trim(replaceAll("markdownImage", text)))

\* the chain of replacements of formatForTelegram, in the order of the source
FormatSteps ==
  <<"literalNewline", "bold", "detayli", "alerjen", "sarap", "category", "bullet",
    "quote", "emojiHeader", "plateHeader", "newlines">>

RECURSIVE applySteps(_, _, _)
applySteps(steps, k, text) ==
  IF k > Len(steps) THEN text
  ELSE applySteps(steps, k + 1, replaceAll(steps[k], text))

\* MessageFormatter.formatForTelegram(text)
formatForTelegram(text) ==
  IF text = <<>> THEN text ELSE trim(applySteps(FormatSteps, 1, text))

\* text with the character at position k taken out
without(text, k) == SubSeq(text, 1, k - 1) \o SubSeq(text, k + 1, Len(text))

\* a repair that drops the first occurrence of the delimiter
dropFirstIfOdd(text, c) ==
  IF countOf(text, c) % 2 # 0 THEN without(text, firstIndex(text, c, 1)) ELSE text

\* validateTelegramMarkdown: "Fix unmatched" for one delimiter
dropLastIfOdd(text, c) ==
  IF countOf(text, c) % 2 # 0 THEN without(text, lastIndexOf(text, c, Len(text))) ELSE text

\* MessageFormatter.validateTelegramMarkdown(text)
validateTelegramMarkdown(text) ==
  IF text = <<>> THEN [isValid |-> TRUE, cleaned |-> <<>>]
  ELSE LET cleaned1 == dropLastIfOdd(dropLastIfOdd(text, "*"), Backtick)
       IN [isValid |-> TRUE,
           cleaned |-> trim(replaceAll("emptyCode", replaceAll("emptyBold", cleaned1)))]

\* A JavaScript value handed to validateTelegramMarkdown: its type and, for a
\* string, its characters (for a number, its digits)
stringValue(text) == [type |-> "string", chars |-> text]
Undefined == [type |-> "undefined", chars |-> <<>>]
FortyTwo == [type |-> "number", chars |-> <<"4", "2">>]
Zero == [type |-> "number", chars |-> <<"0">>]

\* !text
falsy(v) ==
  \/ v.type = "undefined"
  \/ v.type = "string" /\ v.chars = <<>>
  \/ v.type = "number" /\ v.chars = <<"0">>

\* text.replace(/[*`_]/g, '')
stripDelimiters(text) == SelectSeq(text, LAMBDA c : c \notin {"*", Backtick, "_"})

\* cleaned.match (line 326) and text.replace (line 349) are functions only
\* on a string: on any other value the call is a TypeError
hasStringMethods(v) == v.type = "string"

\* validateTelegramMarkdown(v) for a value of any type: what it returns, or
\* that it threw.  A TypeError inside try is caught at line 347; one inside
\* the catch block leaves the function.  The catch block returns
\* [isValid |-> FALSE, cleaned |-> stripDelimiters(text)] only if text.replace
\* is a function, and then the try body did not throw.
validateTelegramMarkdownValue(v) ==
  IF falsy(v) THEN [threw |-> FALSE, isValid |-> TRUE, cleaned |-> <<>>]
  ELSE IF hasStringMethods(v)
  THEN [threw |-> FALSE,
        isValid |-> validateTelegramMarkdown(v.chars).isValid,
        cleaned |-> validateTelegramMarkdown(v.chars).cleaned]
  ELSE \* cleaned.match throws, and so does text.replace in the catch block
       [threw |-> TRUE, isValid |-> FALSE, cleaned |-> <<>>]

\* the text of processDifyResponse's fallback result
CompletedText ==
  <<"<check>", " ", "<dotted-I>", "<s-cedilla>", "l", "e", "m", "i", "n",
    "i", "z", " ", "t", "a", "m", "a", "m", "l", "a", "n", "d",
    "<dotless-i>", "!">>

\* a result that asks for markup whenever there is anything to send
processExtractedMarkupForImages(cleanText, imageUrls) ==
  IF Len(cleanText) > 0 \/ Len(imageUrls) > 0
  THEN [text |-> formatForTelegram(cleanText), imageUrls |-> imageUrls,
        hasImages |-> Len(imageUrls) > 0, useMarkdown |-> TRUE]
  ELSE [text |-> CompletedText, imageUrls |-> <<>>, hasImages |-> FALSE,
        useMarkdown |-> FALSE]

\* processDifyResponse after "First extract markdown images"
processExtracted(cleanText, imageUrls) ==
  IF Len(cleanText) > 0
  THEN [text |-> formatForTelegram(cleanText), imageUrls |-> imageUrls,
        hasImages |-> Len(imageUrls) > 0, useMarkdown |-> TRUE]
  ELSE IF Len(imageUrls) > 0
  THEN [text |-> <<>>, imageUrls |-> imageUrls, hasImages |-> TRUE, useMarkdown |-> FALSE]
  ELSE [text |-> CompletedText, imageUrls |-> <<>>, hasImages |-> FALSE,
        useMarkdown |-> FALSE]

\* the result of extractMarkdownImages handed on
processResult(extracted) == processExtracted(extracted.cleanText, extracted.imageUrls)

\* MessageFormatter.processDifyResponse(responseText) on a text given by its
\* characters
processDifyResponseText(responseText) ==
  IF responseText = <<>>
  THEN [text |-> <<>>, imageUrls |-> <<>>, hasImages |-> FALSE, useMarkdown |-> FALSE]
  ELSE processResult(extractMarkdownImages(responseText))

\* the pieces the answer texts of SpecFormatter are made of
CheckThis ==
  <<"C", "h", "e", "c", "k", " ", "t", "h", "i", "s", " ">>
NowWord ==
  <<" ", "n", "o", "w">>
ImageUrl ==
  <<"h", "t", "t", "p", "s", ":", "/", "/", "x", ".", "c", "o", "m", "/",
    "a", ".", "p", "n", "g">>
ImageReference ==
  <<"!", "[", "p", "i", "c", "]", "(", "h", "t", "t", "p", "s", ":", "/",
    "/", "x", ".", "c", "o", "m", "/", "a", ".", "p", "n", "g", ")">>
BareImageUrl ==
  <<"h", "t", "t", "p", "s", ":", "/", "/", "x", ".", "c", "o", "m", "/",
    "b", ".", "j", "p", "g">>
\* the two characters backslash and n, as Dify sends a line break
LiteralNewline == <<"\\", "n">>
Pieces ==
  {CheckThis, NowWord, ImageReference, BareImageUrl, <<"\n">>, <<"*">>, LiteralNewline}

RECURSIVE concat(_)
concat(pieces) == IF pieces = <<>> THEN <<>> ELSE Head(pieces) \o concat(Tail(pieces))

\* the characters of the short answer texts: the two markup delimiters that
\* validateTelegramMarkdown repairs, a space and a letter
MarkerChars == {"*", Backtick, " ", "a"}
MarkerTexts == UNION {[1 .. n -> MarkerChars] : n \in 1 .. MaxMarkers}

\* the answer texts explored: up to MaxPieces pieces in a row, and the short
\* texts over MarkerChars
Texts ==
  {concat(ps) : ps \in UNION {[1 .. n -> Pieces] : n \in 0 .. MaxPieces}} \cup MarkerTexts

\* an answer text before sendFormattedMessage has looked at it
startFormat(text) ==
  [pc |-> "responseText", responseText |-> text, arg |-> Undefined,
   processed |-> [text |-> <<>>, imageUrls |-> <<>>, hasImages |-> FALSE,
                  useMarkdown |-> FALSE],
   validation |-> [isValid |-> TRUE, cleaned |-> <<>>]]

\* sendFormattedMessage: const processed = MessageFormatter.processDifyResponse(responseText)
ProcessDifyResponse ==
  /\ fmt.pc = "responseText"
  /\ fmt' = [fmt EXCEPT !.pc = "processed",
                        !.processed = processDifyResponseText(fmt.responseText)]
  /\ UNCHANGED <<now, rlVars, smVars, relayVars>>

\* the text-only branch of sendFormattedMessage:
\* const validation = MessageFormatter.validateTelegramMarkdown(processed.text)
ValidateTelegramMarkdown ==
  /\ fmt.pc = "processed"
  /\ ~(fmt.processed.hasImages /\ Len(fmt.processed.imageUrls) > 0)
  /\ Len(fmt.processed.text) > 0
  /\ fmt' = [fmt EXCEPT !.pc = "validated",
                        !.validation = validateTelegramMarkdown(fmt.processed.text)]
  /\ UNCHANGED <<now, rlVars, smVars, relayVars>>

\* the values validateTelegramMarkdown is called with directly
Values ==
  {Undefined, Zero, FortyTwo} \cup
  {stringValue(text) : text \in {<<>>, <<"*">>, <<"a", "_", "*", Backtick>>}}

\* before a direct call validateTelegramMarkdown(v)
startValidate(v) == [startFormat(<<>>) EXCEPT !.pc = "value", !.arg = v]

\* a direct call MessageFormatter.validateTelegramMarkdown(fmt.arg)
ValidateTelegramMarkdownValue ==
  /\ fmt.pc = "value"
  /\ fmt' = [fmt EXCEPT
               !.pc = IF validateTelegramMarkdownValue(fmt.arg).threw
                      THEN "threw" ELSE "returned",
               !.validation =
                 [isValid |-> validateTelegramMarkdownValue(fmt.arg).isValid,
                  cleaned |-> validateTelegramMarkdownValue(fmt.arg).cleaned]]
  /\ UNCHANGED <<now, rlVars, smVars, relayVars>>

InitFormatter ==
  /\ now = 0
  /\ requests = [u \in Users |-> <<>>]
  /\ rlCalls = 0
  /\ winStart = [u \in Users |-> -1]
  /\ winCalls = [u \in Users |-> 0]
  /\ lastOk = [u \in Users |-> FALSE]
  /\ sessions = <<>>
  /\ smLast = NoCall
  /\ run = Idle
  /\ runs = 0
  /\ fmt \in {startFormat(text) : text \in Texts} \cup {startValidate(v) : v \in Values}

NextFormatter ==
  \/ ProcessDifyResponse
  \/ ValidateTelegramMarkdown
  \/ ValidateTelegramMarkdownValue

SpecFormatter == InitFormatter /\ [][NextFormatter]_vars

\* the answer of the example and the text it is said to leave
CheckThisNow == CheckThis \o ImageReference \o NowWord
CheckThisNowClean ==
  <<"C", "h", "e", "c", "k", " ", "t", "h", "i", "s", " ", "n", "o", "w">>

\* C20: processDifyResponse applied to
\* "Check this ![pic](https://x.com/a.png) now" yields the one image URL
\* https://x.com/a.png and the text "Check this now".
C20_ImageReferenceLeavesOneSeparator ==
  (fmt.pc # "responseText" /\ fmt.responseText = CheckThisNow)
    => /\ fmt.processed.imageUrls = <<ImageUrl>>
       /\ fmt.processed.text = CheckThisNowClean

\* C21: processDifyResponse applied to the empty string returns the fixed
\* completion acknowledgment as its text, and hasImages = false.
C21_EmptyAnswerAcknowledged ==
  (fmt.pc # "responseText" /\ fmt.responseText = <<>>)
    => /\ fmt.processed.text = CompletedText
       /\ fmt.processed.hasImages = FALSE

\* what C22 says of a result p for an answer whose extraction gave e
threeShapes(e, p) ==
  /\ p.hasImages = (p.imageUrls # <<>>)
  /\ \/ /\ e.cleanText # <<>>
        /\ p.text = formatForTelegram(e.cleanText) /\ p.imageUrls = e.imageUrls
        /\ p.useMarkdown = TRUE
     \/ /\ e.cleanText = <<>> /\ e.imageUrls # <<>>
        /\ p.text = <<>> /\ p.imageUrls = e.imageUrls
        /\ p.hasImages = TRUE /\ p.useMarkdown = FALSE
     \/ /\ e.cleanText = <<>> /\ e.imageUrls = <<>>
        /\ p.text = CompletedText /\ p.imageUrls = <<>>
        /\ p.useMarkdown = FALSE

firstOccurrence(text, url) == least({k \in 1 .. Len(text) : startsWithAt(text, k, url)})

\* C23: the imageUrls that extractMarkdownImages returns (processDifyResponse
\* hands them on as they are) hold no string twice, and hold the image URLs of
\* the answer in the order in which they first occur in the answer text.
C23_ImagesUniqueInTextOrder ==
  fmt.pc # "responseText"
    => /\ \A i, j \in 1 .. Len(fmt.processed.imageUrls) :
            i # j => fmt.processed.imageUrls[i] # fmt.processed.imageUrls[j]
       /\ \A i \in 1 .. Len(fmt.processed.imageUrls) :
            firstOccurrence(fmt.responseText, fmt.processed.imageUrls[i]) # 0
       /\ \A i, j \in 1 .. Len(fmt.processed.imageUrls) :
            i < j => firstOccurrence(fmt.responseText, fmt.processed.imageUrls[i])
                       < firstOccurrence(fmt.responseText, fmt.processed.imageUrls[j])

\* the positions of text at which an unmatched delimiter is to be dropped: the
\* last * when their number is odd, the last backtick when theirs is
unmatched(text) ==
  {k \in 1 .. Len(text) :
     \E c \in {"*", Backtick} :
       /\ text[k] = c
       /\ Cardinality({m \in 1 .. Len(text) : text[m] = c}) % 2 = 1
       /\ \A m \in k + 1 .. Len(text) : text[m] # c}

\* text without the characters at the positions D
RECURSIVE dropAt(_, _, _)
dropAt(text, D, k) ==
  IF k > Len(text) THEN <<>>
  ELSE (IF k \in D THEN <<>> ELSE <<text[k]>>) \o dropAt(text, D, k + 1)

\* C24: validateTelegramMarkdown returns isValid = true and a cleaned text
\* with an even number of * and an even number of backticks; where a
\* delimiter's number in the input is odd it is its last occurrence that is
\* dropped (the cleaned text is what the clean-up of empty pairs and trim leave
\* of the input without those last occurrences).
C24_ValidatedMarkersEven ==
  fmt.pc = "validated"
    => /\ fmt.validation.isValid = TRUE
       /\ Cardinality({k \in 1 .. Len(fmt.validation.cleaned) :
                         fmt.validation.cleaned[k] = "*"}) % 2 = 0
       /\ Cardinality({k \in 1 .. Len(fmt.validation.cleaned) :
                         fmt.validation.cleaned[k] = Backtick}) % 2 = 0
       /\ fmt.validation.cleaned =
            trim(replaceAll("emptyCode",
                   replaceAll("emptyBold",
                     dropAt(fmt.processed.text, unmatched(fmt.processed.text), 1))))

\* the text *a** went in, the last of its three * was dropped
C24_Witness ==
  /\ fmt.pc = "validated"
  /\ fmt.processed.text = <<"*", "a", "*", "*">>
  /\ fmt.validation = [isValid |-> TRUE, cleaned |-> <<"*", "a", "*">>]

\* C25: validateTelegramMarkdown throws for no input value, and when it
\* returns isValid = false the cleaned text is the input without its markup
\* delimiters.
C25_ValidateNeverThrows ==
  /\ fmt.pc # "threw"
  /\ (fmt.pc \in {"returned", "validated"} /\ fmt.validation.isValid = FALSE)
       => fmt.validation.cleaned = stripDelimiters(fmt.arg.chars)

\* C26: the cleaned text of validateTelegramMarkdown holds no empty delimiter
\* pair (two * or two backticks with nothing or only whitespace between
\* them), and validateTelegramMarkdown applied to it returns it unchanged.
C26_NoEmptyPairIdempotent ==
  fmt.pc = "validated"
    => /\ nextMatch("emptyBold", fmt.validation.cleaned, 1) = 0
       /\ nextMatch("emptyCode", fmt.validation.cleaned, 1) = 0
       /\ validateTelegramMarkdown(fmt.validation.cleaned).cleaned = fmt.validation.cleaned

\* ------------------------------------------------------------------------
\* RateLimiter
\* ------------------------------------------------------------------------
\* a filter that keeps an instant that is exactly windowSize old
validRequestsInclusive(reqs, u, t) == SelectSeq(reqs[u], LAMBDA ts : t - ts <= windowSize)

\* userRequests.filter(timestamp => now - timestamp < this.windowSize)
validRequests(reqs, u, t) == SelectSeq(reqs[u], LAMBDA ts : t - ts < windowSize)

\* a ceiling test that lets one request too many through
atCeilingOffByOne(n) == n > maxRequests

\* the ceiling test of isAllowed: validRequests.length >= this.maxRequests
atCeiling(n) == n >= maxRequests

\* the value isAllowed(u) returns at instant t
isAllowedResult(reqs, u, t) ==
  IF u = NoUser THEN FALSE
  ELSE ~atCeiling(Len(validRequests(reqs, u, t)))

\* a limiter that records the instant of a denied call too
isAllowedRequestsRecordsDenied(reqs, u, t) ==
  IF u = NoUser THEN reqs
  ELSE [reqs EXCEPT ![u] = Append(validRequests(reqs, u, t), t)]

\* RateLimiter.requests after isAllowed(u) at instant t
isAllowedRequests(reqs, u, t) ==
  IF u = NoUser THEN reqs
  ELSE LET valid == validRequests(reqs, u, t) IN
       IF atCeiling(Len(valid))
       THEN [reqs EXCEPT ![u] = valid]
       ELSE [reqs EXCEPT ![u] = Append(valid, t)]

\* one call rateLimiter.isAllowed(u), with the observers of the user's window
isAllowed(u) ==
  /\ rlCalls < maxRequests + MaxExtraCalls
  /\ requests' = isAllowedRequests(requests, u, now)
  /\ rlCalls' = rlCalls + 1
  /\ IF u = NoUser
     THEN UNCHANGED <<winStart, winCalls, lastOk>>
     ELSE /\ lastOk' = [lastOk EXCEPT ![u] = isAllowedResult(requests, u, now)]
          /\ IF winStart[u] # -1 /\ now - winStart[u] < windowSize
             THEN /\ winCalls' = [winCalls EXCEPT ![u] = @ + 1]
                  /\ UNCHANGED winStart
             ELSE IF validRequests(requests, u, now) = <<>>
             THEN /\ winStart' = [winStart EXCEPT ![u] = now]
                  /\ winCalls' = [winCalls EXCEPT ![u] = 1]
             ELSE /\ winStart' = [winStart EXCEPT ![u] = -1]
                  /\ winCalls' = [winCalls EXCEPT ![u] = 0]
  /\ UNCHANGED <<now, smVars, relayVars, fmtVars>>

\* time passes
Tick ==
  /\ now < MaxTicks * TickStep
  /\ now' = now + TickStep
  /\ UNCHANGED <<rlVars, smVars, relayVars, fmtVars>>

InitRL ==
  /\ now = 0
  /\ requests = [u \in Users |-> <<>>]
  /\ rlCalls = 0
  /\ winStart = [u \in Users |-> -1]
  /\ winCalls = [u \in Users |-> 0]
  /\ lastOk = [u \in Users |-> FALSE]
  /\ sessions = <<>>
  /\ smLast = NoCall
  /\ run = Idle
  /\ runs = 0
  /\ fmt = startFormat(<<>>)

NextRL ==
  \/ \E u \in UserIds : isAllowed(u)
  \/ Tick

SpecRateLimiter == InitRL /\ [][NextRL]_vars

\* C1: within one window of windowSize ms (opened by a call that finds no live
\* instant of the user), the user's calls number 1 .. maxRequests return true
\* and every further call of that window returns false.
C1_WindowAdmitsUpToCeiling ==
  \A u \in Users :
    (winStart[u] # -1 /\ winCalls[u] >= 1) => (lastOk[u] = (winCalls[u] <= maxRequests))

\* the call after the ceiling was made, at a later instant of the same window,
\* and was denied
C1_Witness ==
  \E u \in Users :
    /\ winCalls[u] = maxRequests + 1
    /\ ~lastOk[u]
    /\ now > winStart[u]
    /\ Len(requests[u]) = maxRequests

\* C13: after every isAllowed call no user's stored sequence is longer than
\* maxRequests, and every stored instant of the user the call checked is less
\* than windowSize old.
C13_StoredInstantsBoundedAndLive ==
  /\ [](\A u \in Users : Len(requests[u]) <= maxRequests)
  /\ [][\A u \in Users :
          (rlCalls' = rlCalls + 1 /\ requests' = isAllowedRequests(requests, u, now))
          => \A i \in 1 .. Len(requests'[u]) : now - requests'[u][i] < windowSize]_vars

\* at the last clock instant a user's sequence is full of instants of that
\* instant (whatever was stored at instant 0 is gone) and the call after the
\* ceiling was denied
C13_Witness ==
  \E u \in Users :
    /\ now = MaxTicks * TickStep
    /\ Len(requests[u]) = maxRequests
    /\ \A i \in 1 .. Len(requests[u]) : requests[u][i] = now
    /\ ~lastOk[u]
    /\ rlCalls = maxRequests + MaxExtraCalls

\* C14: every isAllowed call is one of: a call without user id, which stores
\* nothing; a call of a user with fewer than maxRequests stored instants in
\* the trailing window, which returns true and adds the current instant to
\* them; a call of a user with maxRequests or more of them, which returns false
\* and adds nothing.  The stored instants are therefore the admitted ones, and
\* a call is admitted as soon as fewer than maxRequests of them are in the
\* window, whatever was denied before.
C14_DeniedCallsRecordNothing ==
  [][rlCalls' = rlCalls + 1 =>
       \/ requests' = requests /\ lastOk' = lastOk
       \/ \E u \in Users :
            LET live == SelectSeq(requests[u], LAMBDA ts : ts > now - windowSize) IN
            /\ \A v \in Users \ {u} : requests'[v] = requests[v] /\ lastOk'[v] = lastOk[v]
            /\ IF Len(live) < maxRequests
               THEN lastOk'[u] /\ requests'[u] = Append(live, now)
               ELSE ~lastOk'[u] /\ requests'[u] = live]_vars

\* two calls in a row were denied at a later instant of the window and the
\* stored sequence still holds the maxRequests admitted instants only
C14_Witness ==
  \E u \in Users :
    /\ winCalls[u] = maxRequests + 2
    /\ ~lastOk[u]
    /\ now > winStart[u]
    /\ Len(requests[u]) = maxRequests
    /\ \A i \in 1 .. Len(requests[u]) : requests[u][i] < now

\* ------------------------------------------------------------------------
\* SessionManager
\* ------------------------------------------------------------------------
\* Map.has / Map.get / Map.delete / Map.set on the entries in insertion order
has(S, u) == \E i \in 1 .. Len(S) : S[i].userId = u
indexOf(S, u) == CHOOSE i \in 1 .. Len(S) : S[i].userId = u
get(S, u) == S[indexOf(S, u)]
delete(S, u) == SelectSeq(S, LAMBDA s : s.userId # u)
\* a store that adds an entry on every write, whether the key is there or not
setAlwaysAppends(S, u, rec) == Append(S, rec)
set(S, u, rec) == IF has(S, u) THEN [S EXCEPT ![indexOf(S, u)] = rec] ELSE Append(S, rec)

\* a guard that only rejects the missing id
invalidUserIdMissingOnly(u) == u = NoUser

\* !userId || typeof userId !== 'number'
invalidUserId(u) == u = NoUser \/ typeofUserId(u) # "number"

\* an expiry test that already drops a session that is exactly sessionTTL old
expiredAtTTL(s, t) == t - s.createdAt >= sessionTTL

\* now - session.createdAt > this.sessionTTL
expired(s, t) == t - s.createdAt > sessionTTL

newSession(u, t) ==
  [userId |-> u, conversationId |-> "", createdAt |-> t, lastAccessed |-> t,
   requestCount |-> 0]

\* the loop of evictOldestSession from entry i on: the key it ends with
RECURSIVE oldestScan(_, _, _, _)
oldestScan(S, i, oldestKey, oldestTime) ==
  IF i > Len(S) THEN oldestKey
  ELSE IF S[i].lastAccessed < oldestTime
       THEN oldestScan(S, i + 1, S[i].userId, S[i].lastAccessed)
       ELSE oldestScan(S, i + 1, oldestKey, oldestTime)

\* the store after evictOldestSession() at instant t
evictOldestSession(S, t) ==
  LET oldestKey == oldestScan(S, 1, NoUser, t) IN
  IF oldestKey # NoUser THEN delete(S, oldestKey) ELSE S

\* the store after getUserSession(u) at instant t (u a valid id); the session
\* returned is get(<that store>, u)
getUserSession(S, u, t) ==
  IF has(S, u) /\ ~expired(get(S, u), t)
  THEN set(S, u, [get(S, u) EXCEPT !.lastAccessed = t])
  ELSE LET S1 == IF has(S, u) THEN delete(S, u) ELSE S
           S2 == IF Len(S1) >= maxSessions THEN evictOldestSession(S1, t) ELSE S1
       IN set(S2, u, newSession(u, t))

\* an update that touches the session and keeps its old conversationId
updateUserSessionKeepsToken(S, u, c, t) ==
  IF invalidUserId(u) THEN S ELSE getUserSession(S, u, t)

\* the store after updateUserSession(u, c) at instant t
updateUserSession(S, u, c, t) ==
  IF invalidUserId(u) THEN S
  ELSE LET S1 == getUserSession(S, u, t)
           s == get(S1, u)
       IN set(S1, u, [s EXCEPT !.conversationId = c,
                               !.lastAccessed = t,
                               !.requestCount = @ + 1])

\* a sweep that already drops a session that is exactly sessionTTL old
cleanupAtTTL(S, t) == SelectSeq(S, LAMBDA s : ~expiredAtTTL(s, t))

\* the store after cleanup() at instant t
cleanup(S, t) == SelectSeq(S, LAMBDA s : ~expired(s, t))

\* requestCount summed over the stored sessions (bounds SpecSessions)
RECURSIVE totalRequestCount(_)
totalRequestCount(S) ==
  IF S = <<>> THEN 0 ELSE Head(S).requestCount + totalRequestCount(Tail(S))

\* sessionManager.getUserSession(u); an invalid id throws and changes nothing
GetUserSession(u) ==
  /\ sessions' = IF invalidUserId(u) THEN sessions ELSE getUserSession(sessions, u, now)
  /\ smLast' = IF invalidUserId(u) THEN "getThrew" ELSE "get"
  /\ UNCHANGED <<now, rlVars, relayVars, fmtVars>>

\* sessionManager.updateUserSession(u, c)
UpdateUserSession(u, c) ==
  /\ totalRequestCount(sessions) < MaxRequestCount
  /\ sessions' = updateUserSession(sessions, u, c, now)
  /\ smLast' = IF invalidUserId(u) THEN "updateSkipped" ELSE "update"
  /\ UNCHANGED <<now, rlVars, relayVars, fmtVars>>

\* the hourly sweep started by the constructor
Cleanup ==
  /\ sessions' = cleanup(sessions, now)
  /\ smLast' = "cleanup"
  /\ UNCHANGED <<now, rlVars, relayVars, fmtVars>>

SessionTick ==
  /\ now < MaxSessionTicks * SessionTickStep
  /\ now' = now + SessionTickStep
  /\ UNCHANGED <<rlVars, smVars, relayVars, fmtVars>>

InitSessions == InitRL

NextSessions ==
  \/ \E u \in SessionUsers \cup {NoUser} : GetUserSession(u)
  \/ \E u \in NonNumericIds : GetUserSession(u)
  \/ \E u \in SessionUsers \cup {NoUser}, c \in SessionTokens : UpdateUserSession(u, c)
  \/ Cleanup
  \/ SessionTick

SpecSessions == InitSessions /\ [][NextSessions]_vars

\* C2: updateUserSession never replaces a live session's non-empty
\* conversationId with the empty string.
C2_UpdateNeverClearsToken ==
  [][\A u \in SessionUsers :
       ( /\ smLast' = "update"
         /\ has(sessions, u) /\ ~expired(get(sessions, u), now)
         /\ has(sessions', u)
         /\ get(sessions', u).requestCount = get(sessions, u).requestCount + 1
         /\ get(sessions, u).conversationId # "" )
       => get(sessions', u).conversationId # ""]_vars

\* the entries of S that are no longer in T
removed(S, T) == {i \in 1 .. Len(S) : \A j \in 1 .. Len(T) : T[j] # S[i]}

\* C3: getUserSession for a user without a session, on a store that holds
\* maxSessions sessions, removes exactly one session, one with the smallest
\* lastAccessed, and leaves maxSessions sessions.
C3_FullStoreEvictsOldest ==
  [][\A u \in SessionUsers :
       ( /\ smLast' = "get"
         /\ ~has(sessions, u) /\ has(sessions', u)
         /\ Len(sessions) = maxSessions )
       => /\ Len(sessions') = maxSessions
          /\ Cardinality(removed(sessions, sessions')) = 1
          /\ \A i \in removed(sessions, sessions') :
               \A j \in 1 .. Len(sessions) :
                 sessions[i].lastAccessed <= sessions[j].lastAccessed]_vars

\* C16: getUserSession(u) on a stored session older than sessionTTL leaves u
\* with a fresh session (empty conversationId, requestCount 0, created now), put
\* at the end of the store in place of the old one; on a stored session not
\* older than sessionTTL it leaves u's session as it was except for
\* lastAccessed, which is now.
C16_LookupRenewsExpiredKeepsLive ==
  [][\A u \in SessionUsers :
       ( /\ smLast' = "get"
         /\ has(sessions, u)
         /\ sessions' = getUserSession(sessions, u, now) )
       => /\ has(sessions', u)
          /\ IF now - get(sessions, u).createdAt > sessionTTL
             THEN /\ get(sessions', u) =
                       [userId |-> u, conversationId |-> "", createdAt |-> now,
                        lastAccessed |-> now, requestCount |-> 0]
                  /\ sessions'[Len(sessions')].userId = u
                  /\ \A j \in 1 .. Len(sessions') : sessions'[j] # get(sessions, u)
             ELSE /\ get(sessions', u) = [get(sessions, u) EXCEPT !.lastAccessed = now]
                  /\ indexOf(sessions', u) = indexOf(sessions, u)]_vars

\* after a lookup at the last clock instant the store holds a session that is
\* exactly sessionTTL old, kept with its conversationId and touched now, and
\* behind it a session created at this instant
C16_Witness ==
  /\ smLast = "get"
  /\ now = MaxSessionTicks * SessionTickStep
  /\ Len(sessions) = 2
  /\ sessions[1].createdAt = now - sessionTTL /\ sessions[1].lastAccessed = now
  /\ sessions[1].conversationId = "abc" /\ sessions[1].requestCount = 1
  /\ sessions[2].createdAt = now /\ sessions[2].requestCount = 0
  /\ sessions[2].userId < sessions[1].userId

\* C17: a getUserSession call with a missing id or with an id that is not a
\* number throws and leaves the store as it was.
C17_InvalidIdThrowsStoreUnchanged ==
  [][ /\ \A u \in NonNumericIds :
          GetUserSession(u) => (smLast' = "getThrew" /\ sessions' = sessions)
      /\ GetUserSession(NoUser) => (smLast' = "getThrew" /\ sessions' = sessions)
      /\ smLast' = "getThrew" => sessions' = sessions ]_vars

\* the call threw on a store that holds sessions
C17_Witness ==
  /\ smLast = "getThrew"
  /\ Len(sessions) = maxSessions
  /\ \E i \in 1 .. Len(sessions) : sessions[i].conversationId # ""

\* C18: after cleanup() no stored session is older than sessionTTL, every
\* session that was not older than sessionTTL is still stored with all its
\* fields as they were, and nothing else is stored.  A cleanup() step is one
\* that ends with smLast "cleanup" and leaves the clock alone.
C18_CleanupRemovesExactlyExpired ==
  [][(smLast' = "cleanup" /\ now' = now) =>
       /\ \A j \in 1 .. Len(sessions') : now - sessions'[j].createdAt <= sessionTTL
       /\ \A i \in 1 .. Len(sessions) :
            now - sessions[i].createdAt <= sessionTTL
              => \E j \in 1 .. Len(sessions') : sessions'[j] = sessions[i]
       /\ \A j \in 1 .. Len(sessions') :
            \E i \in 1 .. Len(sessions) : sessions[i] = sessions'[j]]_vars

\* a sweep at the last clock instant left exactly one session, one that is
\* sessionTTL old to the millisecond and still carries its conversationId
C18_Witness ==
  /\ smLast = "cleanup"
  /\ now = MaxSessionTicks * SessionTickStep
  /\ Len(sessions) = 1
  /\ sessions[1].createdAt = now - sessionTTL
  /\ sessions[1].conversationId = "abc"

\* C15: the store never holds more than maxSessions sessions.
C15_StoreNeverExceedsMax == Len(sessions) <= maxSessions

\* ------------------------------------------------------------------------
\* The relay: handler, handleMessage, getDifyResponse, telegramApiCall,
\* sendFormattedMessage.  A step is what runs between two awaits: one network
\* request, its outcome and the synchronous code that follows it.
\* ------------------------------------------------------------------------
\* What an AI answer holds: text (none, at most 1000 characters, longer),
\* a number of image URLs, and whether the platform can parse the formatted
\* text as Markdown (bad: it cannot).
Answers ==
  {a \in [id : {"answer"}, text : {"none", "short", "long"}, images : 0 .. MaxImages,
          bad : BOOLEAN] :
     a.bad => (a.text = "short" /\ a.images = 0)}

\* difyResponse?.answer || "... Anlayamadim ..." when the answer is missing
NotUnderstood == [id |-> "notUnderstood", text |-> "short", images |-> 0, bad |-> FALSE]
\* CONSTANTS.FALLBACK_MESSAGE
FALLBACK_MESSAGE == [id |-> "FALLBACK_MESSAGE", text |-> "short", images |-> 0, bad |-> FALSE]

\* MessageFormatter.processDifyResponse on a non-empty response text
processDifyResponse(resp) ==
  IF resp.text # "none"
  THEN [text |-> resp.id, long |-> resp.text = "long", images |-> resp.images,
        hasImages |-> resp.images > 0, useMarkdown |-> TRUE, bad |-> resp.bad]
  ELSE IF resp.images > 0
  THEN [text |-> "", long |-> FALSE, images |-> resp.images,
        hasImages |-> TRUE, useMarkdown |-> FALSE, bad |-> FALSE]
  ELSE [text |-> "completed", long |-> FALSE, images |-> 0,
        hasImages |-> FALSE, useMarkdown |-> FALSE, bad |-> FALSE]

\* processed.text.length: a short text is as long as a caption may be, a
\* long one is one character longer
textLength(proc) ==
  IF proc.text = "" THEN 0 ELSE IF proc.long THEN CaptionLimit + 1 ELSE CaptionLimit

\* a caption cut at the platform's own limit of 1024 characters
captionLengthPlatformLimit(length) == IF length > 1024 THEN 1021 + 3 ELSE length

\* the length of the caption of the first image: caption.substring(0, 997) +
\* '...' when the text is longer than 1000 characters
captionLength(length) == IF length > CaptionLimit THEN 997 + 3 ELSE length

\* a retry loop that gives up one attempt late
lastAttemptOneLate(attempt) == attempt = RETRY_ATTEMPTS + 1

\* retryOperation: after a failed attempt, "if (attempt === maxAttempts) throw error"
lastAttempt(attempt) == attempt = RETRY_ATTEMPTS

\* retryOperation: const delay = CONSTANTS.RETRY_DELAY * Math.pow(2, attempt - 1)
retryDelay(attempt) == RETRY_DELAY * 2^(attempt - 1)

\* retryOperation: the time waited after the failed attempt before the next
\* one; the last attempt throws at once
waitedAfter(attempt) == IF lastAttempt(attempt) THEN 0 ELSE retryDelay(attempt)

\* a finally block that leaves the interval running
finallyKeepsTimer(r) == r.timer

\* handleMessage's finally: if (typingInterval) clearInterval(typingInterval)
finallyTimer(r) == FALSE

\* a handler that reports a failure to the caller
handlerStatusAfterError500(r) == 500

\* handler's catch: "Still return 200 to prevent Telegram from retrying"
handlerStatusAfterError(r) == 200

\* handleMessage returned; handler answers 200.  res is how it ended:
\* "rejected" (early return), "delivered" (the try body ran to its end),
\* "failed" (the catch block ran)
finish(r, res) ==
  [r EXCEPT !.pc = "done", !.timer = finallyTimer(r), !.result = res, !.status = 200]

\* the synchronous start of sendFormattedMessage(chatId, resp, messageId, ...)
enterSendFormatted(r, phase, resp) ==
  LET p == processDifyResponse(resp) IN
  [r EXCEPT !.phase = phase, !.proc = p, !.attempt = 1, !.idx = 1,
            !.pc = IF p.hasImages /\ p.images > 0 THEN "photo1"
                   ELSE IF p.text # "" THEN "text"
                   ELSE "ack"]

\* handleMessage's catch block: send the fallback message
catchBlock(r) == enterSendFormatted(r, "failed", FALLBACK_MESSAGE)

\* sendFormattedMessage returned without throwing
sendFormattedReturned(r) ==
  IF r.phase = "main" THEN finish(r, "delivered") ELSE finish(r, "failed")

\* sendFormattedMessage threw: in the try body handleMessage's catch takes over,
\* in the catch block the error is logged and dropped
sendFormattedThrew(r) ==
  LET r1 == [r EXCEPT !.sfmThrew = TRUE] IN
  IF r.phase = "main" THEN catchBlock(r1) ELSE finish(r1, "failed")

\* the image branch after the image sends
afterImages(r) ==
  IF r.proc.text # "" /\ textLength(r.proc) > CaptionLimit
  THEN [r EXCEPT !.pc = "fulltext", !.attempt = 1]
  ELSE sendFormattedReturned(r)

\* the image branch after the send of image number r.idx (sent or given up)
afterPhoto(r) ==
  IF r.idx < r.proc.images
  THEN [r EXCEPT !.pc = "photoN", !.idx = @ + 1, !.attempt = 1]
  ELSE afterImages(r)

\* the parameters of the telegramApiCall sendFormattedMessage is waiting for
sendFormattedParams(r) ==
  CASE r.pc = "photo1" ->
         [method |-> "sendPhoto", text |-> r.proc.text,
          truncated |-> r.proc.text # "" /\ textLength(r.proc) > CaptionLimit,
          parse_mode |-> r.proc.text # "" /\ r.proc.useMarkdown, reply |-> TRUE]
    [] r.pc = "photoN" ->
         [method |-> "sendPhoto", text |-> "", truncated |-> FALSE,
          parse_mode |-> FALSE, reply |-> FALSE]
    [] r.pc = "fulltext" ->
         [method |-> "sendMessage", text |-> r.proc.text, truncated |-> FALSE,
          parse_mode |-> r.proc.useMarkdown, reply |-> FALSE]
    [] r.pc = "text" ->
         [method |-> "sendMessage", text |-> r.proc.text, truncated |-> FALSE,
          parse_mode |-> r.proc.useMarkdown, reply |-> TRUE]
    [] r.pc = "ack" ->
         [method |-> "sendMessage", text |-> "ack", truncated |-> FALSE,
          parse_mode |-> TRUE, reply |-> TRUE]
    [] r.pc = "final" ->
         [method |-> "sendMessage", text |-> "sorry", truncated |-> FALSE,
          parse_mode |-> FALSE, reply |-> TRUE]

\* a delivery in which a failed send of a further image is treated like a
\* failed text send
sendFormattedContinueImageAborts(r, ok) ==
  CASE r.pc = "photo1" -> afterPhoto(r)
    [] r.pc = "photoN" ->
         IF ok THEN afterPhoto(r) ELSE [r EXCEPT !.pc = "final", !.attempt = 1]
    [] r.pc = "fulltext" -> sendFormattedReturned(r)
    [] r.pc \in {"text", "ack"} ->
         IF ok THEN sendFormattedReturned(r) ELSE [r EXCEPT !.pc = "final", !.attempt = 1]
    [] r.pc = "final" ->
         IF ok THEN sendFormattedReturned(r) ELSE sendFormattedThrew(r)

\* sendFormattedMessage after the pending telegramApiCall returned (ok) or
\* threw (~ok)
sendFormattedContinue(r, ok) ==
  CASE r.pc \in {"photo1", "photoN"} -> afterPhoto(r)
    [] r.pc = "fulltext" -> sendFormattedReturned(r)
    [] r.pc \in {"text", "ack"} ->
         IF ok THEN sendFormattedReturned(r) ELSE [r EXCEPT !.pc = "final", !.attempt = 1]
    [] r.pc = "final" ->
         IF ok THEN sendFormattedReturned(r) ELSE sendFormattedThrew(r)

\* how the chat platform can answer a request: it rejects Markdown it cannot
\* parse with error 400; any request can fail otherwise (5xx, 429, network)
telegramOutcomes(r, params) ==
  IF params.parse_mode /\ r.proc.bad /\ params.text = r.proc.text
  THEN {"markup", "fail"}
  ELSE {"ok", "fail"}

SendFormattedSites == {"photo1", "photoN", "fulltext", "text", "ack", "final"}

\* the update is handed to handleMessage: everything up to the first await
startHandleMessage(userId, isBusiness, chatType) ==
  [Idle EXCEPT !.pc = "typing", !.userId = userId, !.isBusiness = isBusiness,
               !.body = IF isBusiness THEN "business_message" ELSE "message",
               !.chatType = chatType,
               !.hadSession = has(sessions, userId),
               !.tokenBefore = IF has(sessions, userId)
                               THEN get(sessions, userId).conversationId ELSE ""]

\* The webhook calls explored: whether the environment is configured, the
\* HTTP method, what the body holds and, for a message, its shape (ok; no
\* chat object; a text that is not a string), its sender and its chat type.
\* Fields a call never reads are left at one value.
WebhookCalls ==
  {q \in [config : BOOLEAN, method : {"POST", "GET"},
          body : {"none", "business_connection", "business_message", "message", "other"},
          shape : {"ok", "noChat", "badText"},
          userId : UserIds, chatType : {"private", "group"}] :
     LET isMessage == q.config /\ q.method = "POST"
                      /\ q.body \in {"business_message", "message"} IN
     /\ ~q.config => q.method = "POST"
     /\ (~q.config \/ q.method # "POST") => q.body = "none"
     /\ ~isMessage => q.shape = "ok"
     /\ ~(isMessage /\ q.shape = "ok") => (q.userId = NoUser /\ q.chatType = "private")}

\* handler(req, res) up to its first await
handlerStart(q) ==
  IF ~q.config THEN [Idle EXCEPT !.pc = "done", !.status = 500]
  ELSE IF q.method # "POST" THEN [Idle EXCEPT !.pc = "done", !.status = 405]
  ELSE IF q.body = "none" THEN [Idle EXCEPT !.pc = "done", !.status = 400]
  ELSE IF q.body \in {"business_connection", "other"}
       THEN [Idle EXCEPT !.pc = "done", !.status = 200]
  ELSE IF q.shape = "noChat"
       \* message.chat.id throws before the try; handler's catch has no chat id
       THEN [Idle EXCEPT !.pc = "done", !.result = "escaped", !.body = q.body,
                         !.status = handlerStatusAfterError(Idle)]
  ELSE IF q.shape = "badText"
       \* userMessage.substring throws before the try; handler's catch sends
       \* the fallback message
       THEN [Idle EXCEPT !.pc = "handlerSend", !.result = "escaped", !.body = q.body]
  ELSE startHandleMessage(q.userId, q.body = "business_message", q.chatType)

\* a webhook call arrives
Handler ==
  /\ run.pc \in {"idle", "done"}
  /\ runs < MaxRuns
  /\ runs' = runs + 1
  /\ \E q \in WebhookCalls : run' = handlerStart(q)
  /\ UNCHANGED <<now, rlVars, smVars, fmtVars>>

\* handler's catch: await telegramApiCall('sendMessage', {chat_id, text: FALLBACK_MESSAGE})
HandlerSend ==
  /\ run.pc = "handlerSend"
  /\ \E out \in {"ok", "fail"} :
       LET r1 == [run EXCEPT !.sent = Append(@,
                    [method |-> "sendMessage", text |-> "FALLBACK_MESSAGE",
                     truncated |-> FALSE, parse_mode |-> FALSE, reply |-> FALSE,
                     result |-> out, phase |-> "handler",
                     site |-> "handlerSend", idx |-> 1, attempt |-> run.attempt,
                     captionLength |-> 0])] IN
       run' = IF out = "ok" \/ lastAttempt(r1.attempt)
              THEN [r1 EXCEPT !.pc = "done", !.status = handlerStatusAfterError(r1)]
              ELSE [r1 EXCEPT !.attempt = @ + 1]
  /\ UNCHANGED <<now, rlVars, smVars, runs, fmtVars>>

\* await telegramApiCall('sendChatAction', typingParams), then the code up to
\* the await of getDifyResponse
Typing ==
  /\ run.pc = "typing"
  /\ \E out \in {"ok", "fail"} :
       IF out = "ok"
       THEN LET r1 == [run EXCEPT !.timer = TRUE]
                allowed == isAllowedResult(requests, run.userId, now)
            IN /\ requests' = isAllowedRequests(requests, run.userId, now)
               /\ IF ~allowed
                  THEN /\ run' = finish([r1 EXCEPT !.timer = FALSE], "rejected")
                       /\ UNCHANGED sessions
                  ELSE IF ~run.isBusiness /\ run.chatType # "private"
                  THEN /\ run' = finish([r1 EXCEPT !.timer = FALSE], "rejected")
                       /\ UNCHANGED sessions
                  ELSE /\ sessions' = getUserSession(sessions, run.userId, now)
                       \* getDifyResponse(contextualMessage, userFirstName,
                       \*                 session.conversationId)
                       /\ run' = [r1 EXCEPT !.pc = "dify", !.attempt = 1,
                                            !.conversationId =
                                               get(sessions', run.userId).conversationId]
       ELSE /\ run' = IF lastAttempt(run.attempt) THEN catchBlock(run)
                      ELSE [run EXCEPT !.attempt = @ + 1]
            /\ UNCHANGED <<requests, sessions>>
  /\ UNCHANGED <<now, rlCalls, winStart, winCalls, lastOk, smLast, runs, fmtVars>>

\* one request of getDifyResponse (fetchWithTimeout inside retryOperation) and
\* the code of handleMessage up to the first await of sendFormattedMessage
Dify ==
  /\ run.pc = "dify"
  /\ LET conv == run.conversationId IN
     \/ \E answer \in Answers \cup {NotUnderstood}, conversation_id \in Tokens \cup {""} :
          LET r1 == [run EXCEPT !.difyLog = Append(@, [conversation_id |-> conv,
                                                       result |-> "ok",
                                                       returned |-> conversation_id,
                                                       waited |-> 0])] IN
          /\ sessions' = IF conversation_id # ""
                         THEN updateUserSession(sessions, run.userId, conversation_id, now)
                         ELSE sessions
          /\ run' = enterSendFormatted(r1, "main", answer)
     \/ \E out \in {"timeout", "error"} :
          LET r1 == [run EXCEPT !.difyLog = Append(@, [conversation_id |-> conv,
                                                       result |-> out,
                                                       returned |-> "",
                                                       waited |-> waitedAfter(run.attempt)])] IN
          \* the last attempt's error reaches handleMessage's catch (error)
          /\ run' = IF lastAttempt(run.attempt) THEN catchBlock([r1 EXCEPT !.error = out])
                    ELSE [r1 EXCEPT !.attempt = @ + 1]
          /\ UNCHANGED sessions
  /\ UNCHANGED <<now, rlVars, smLast, runs, fmtVars>>

\* one request of the telegramApiCall sendFormattedMessage is waiting for, and
\* the code that follows it up to the next await
sendFormattedRequest(r, params, out) ==
  LET r1 == [r EXCEPT !.sent = Append(@,
               [method |-> params.method, text |-> params.text,
                truncated |-> params.truncated, parse_mode |-> params.parse_mode,
                reply |-> params.reply, result |-> out, phase |-> r.phase,
                site |-> r.pc, idx |-> r.idx, attempt |-> r.attempt,
                captionLength |-> IF r.pc = "photo1"
                                  THEN captionLength(textLength(r.proc))
                                  ELSE 0])] IN
  IF out = "ok" THEN sendFormattedContinue(r1, TRUE)
  ELSE IF lastAttempt(r1.attempt) THEN sendFormattedContinue(r1, FALSE)
  ELSE [r1 EXCEPT !.attempt = @ + 1]

SendFormatted ==
  /\ run.pc \in SendFormattedSites
  /\ \E out \in telegramOutcomes(run, sendFormattedParams(run)) :
       run' = sendFormattedRequest(run, sendFormattedParams(run), out)
  /\ UNCHANGED <<now, rlVars, smVars, runs, fmtVars>>

\* the interval set at line 710 fires: one more sendChatAction, not awaited
TypingTick ==
  /\ run.timer
  /\ run.ticks < MaxTypingTicks
  /\ run' = [run EXCEPT !.ticks = @ + 1]
  /\ UNCHANGED <<now, rlVars, smVars, runs, fmtVars>>

\* SpecRelay starts with the limiter of user 2 at its ceiling (a state
\* SpecRateLimiter reaches) and handles its webhook calls within one clock
\* instant; windows and sessions that expire are explored by the other two
\* specifications.
FullWindow == [i \in 1 .. maxRequests |-> 0]

\* the session user 2's earlier messages left behind: created by
\* getUserSession, given a conversation_id by one updateUserSession
EarlierSession == updateUserSession(<<>>, 2, "xyz", 0)

InitRelay ==
  /\ now = 0
  /\ requests = [u \in Users |-> IF u = 2 THEN FullWindow ELSE <<>>]
  /\ rlCalls = 0
  /\ winStart = [u \in Users |-> -1]
  /\ winCalls = [u \in Users |-> 0]
  /\ lastOk = [u \in Users |-> FALSE]
  /\ sessions = EarlierSession
  /\ smLast = NoCall
  /\ run = Idle
  /\ runs = 0
  /\ fmt = startFormat(<<>>)

NextRelay ==
  \/ Handler
  \/ HandlerSend
  \/ Typing
  \/ Dify
  \/ SendFormatted
  \/ TypingTick

SpecRelay == InitRelay /\ [][NextRelay]_vars

\* SpecRelay with every pending request settling: fetchWithTimeout ends each
\* request with a response, an error or its abort after FETCH_TIMEOUT, and the
\* delays of retryOperation are finite, so a run that waits at an await
\* eventually takes its next step.
SpecRelayLive ==
  /\ InitRelay
  /\ [][NextRelay]_vars
  /\ WF_vars(HandlerSend \/ Typing \/ Dify \/ SendFormatted)

\* ------------------------------------------------------------------------
\* SpecGallery: the delivery of one AI answer with up to ManyImages images,
\* of which the chat platform fails at most MaxFailures requests.  It starts
\* where handleMessage has the answer to user 1's first private message: the
\* typing request went through, the limiter admitted the user, the session
\* was created, the AI backend answered at the first attempt without a
\* conversation_id.
\* ------------------------------------------------------------------------
GalleryAnswers ==
  [id : {"answer"}, text : {"none", "short", "long"}, images : 1 .. ManyImages,
   bad : {FALSE}]

\* handleMessage at the call sendFormattedMessage(chatId, responseText, ...)
answered(answer) ==
  enterSendFormatted(
    [Idle EXCEPT !.userId = 1, !.body = "message", !.timer = TRUE,
                 !.difyLog = <<[conversation_id |-> "", result |-> "ok",
                                returned |-> "", waited |-> 0]>>],
    "main", answer)

\* the requests of the run that the platform failed
failures(r) == Cardinality({i \in 1 .. Len(r.sent) : r.sent[i].result # "ok"})

\* one request of the telegramApiCall sendFormattedMessage is waiting for
SendGallery ==
  /\ run.pc \in SendFormattedSites
  /\ \E out \in IF failures(run) < MaxFailures
                  THEN telegramOutcomes(run, sendFormattedParams(run))
                  ELSE {"ok"} :
       run' = sendFormattedRequest(run, sendFormattedParams(run), out)
  /\ UNCHANGED <<now, rlVars, smVars, runs, fmtVars>>

InitGallery ==
  /\ now = 0
  /\ requests = isAllowedRequests([u \in Users |-> IF u = 2 THEN FullWindow ELSE <<>>], 1, 0)
  /\ rlCalls = 0
  /\ winStart = [u \in Users |-> -1]
  /\ winCalls = [u \in Users |-> 0]
  /\ lastOk = [u \in Users |-> FALSE]
  /\ sessions = getUserSession(EarlierSession, 1, 0)
  /\ smLast = NoCall
  /\ run \in {answered(answer) : answer \in GalleryAnswers}
  /\ runs = 1
  /\ fmt = startFormat(<<>>)

NextGallery == SendGallery

SpecGallery == InitGallery /\ [][NextGallery]_vars

\* ------------------------------------------------------------------------
\* SpecDify: one call getDifyResponse(userMessage, userName, conversationId),
\* the user message given by its length.
\* ------------------------------------------------------------------------
\* the lengths of the user messages: the empty message, one character, and
\* the lengths around QueryLimit
MessageLengths == {0, 1} \cup (QueryLimit - MaxOver .. QueryLimit + MaxOver)

\* the length of userMessage after
\* "userMessage = userMessage.substring(0, 4000) + '...'"
truncatedLength(length) == IF length > QueryLimit THEN QueryLimit + 3 ELSE length

\* before the call: whether DIFY_API_URL and DIFY_API_TOKEN are set, the
\* message and the conversation id handed in
startGetDifyResponse(config, length, conversationId) ==
  [Idle EXCEPT !.pc = "getDifyResponse", !.config = config,
               !.messageLength = length, !.conversationId = conversationId]

\* getDifyResponse up to its first request: the two guards and the truncation
GetDifyResponse ==
  /\ run.pc = "getDifyResponse"
  /\ run' = IF ~run.config
            THEN [run EXCEPT !.pc = "done", !.error = "Dify API configuration missing"]
            ELSE IF run.messageLength = 0
            THEN [run EXCEPT !.pc = "done", !.error = "Invalid user message"]
            ELSE [run EXCEPT !.pc = "difyFetch", !.attempt = 1,
                             !.queryLength = truncatedLength(run.messageLength)]
  /\ UNCHANGED <<now, rlVars, smVars, runs, fmtVars>>

\* one attempt of retryOperation inside getDifyResponse: the request with its
\* query, and what comes back
DifyFetch ==
  /\ run.pc = "difyFetch"
  /\ \E out \in {"ok", "timeout", "error"} :
       LET r1 == [run EXCEPT !.difyLog = Append(@,
                    [conversation_id |-> run.conversationId, result |-> out,
                     returned |-> "",
                     waited |-> IF out = "ok" THEN 0 ELSE waitedAfter(run.attempt),
                     query |-> run.queryLength])] IN
       run' = IF out = "ok" THEN [r1 EXCEPT !.pc = "done", !.result = "returned"]
              ELSE IF lastAttempt(run.attempt) THEN [r1 EXCEPT !.pc = "done", !.error = out]
              ELSE [r1 EXCEPT !.attempt = @ + 1]
  /\ UNCHANGED <<now, rlVars, smVars, runs, fmtVars>>

InitDify ==
  /\ now = 0
  /\ requests = [u \in Users |-> <<>>]
  /\ rlCalls = 0
  /\ winStart = [u \in Users |-> -1]
  /\ winCalls = [u \in Users |-> 0]
  /\ lastOk = [u \in Users |-> FALSE]
  /\ sessions = <<>>
  /\ smLast = NoCall
  /\ run \in {startGetDifyResponse(config, length, conversationId) :
                config \in BOOLEAN, length \in MessageLengths,
                conversationId \in Tokens \cup {""}}
  /\ runs = 0
  /\ fmt = startFormat(<<>>)

NextDify ==
  \/ GetDifyResponse
  \/ DifyFetch

SpecDify == InitDify /\ [][NextDify]_vars


\* ------------------------------------------------------------------------
\* SpecDebug: the debug variant (src/unnamed/part_000), one call
\* sendTelegramMessage(chatId, text, replyToMessageId).
\* ------------------------------------------------------------------------
\* CONSTANTS.MAX_MESSAGE_LENGTH of the debug variant
MAX_MESSAGE_LENGTH == 4096

\* "replyToMessageId = null": no message to reply to
NoReply == 0
DebugChats == {11, 12}
DebugReplies == {NoReply, 7}
\* a text is its content and its length
DebugTexts ==
  {[content |-> "", length |-> 0],
   [content |-> "answer", length |-> 6],
   [content |-> "long answer", length |-> MAX_MESSAGE_LENGTH + 1]}
\* the text sent in place of an empty one
DefaultText == [content |-> "default", length |-> 37]

\* "let cleanText = text || <default>;
\*  cleanText = cleanText.substring(0, CONSTANTS.MAX_MESSAGE_LENGTH)"
cleanText(text) ==
  LET chosen == IF text.length = 0 THEN DefaultText ELSE text IN
  [chosen EXCEPT !.length = IF @ > MAX_MESSAGE_LENGTH THEN MAX_MESSAGE_LENGTH ELSE @]

\* the request parameters; reply_to_message_id = NoReply stands for the
\* parameter being absent
sendParams(chatId, text, replyToMessageId) ==
  [chat_id |-> chatId, text |-> cleanText(text),
   reply_to_message_id |-> IF replyToMessageId # NoReply THEN replyToMessageId ELSE NoReply]

\* mutant of withoutReply: the retry keeps the reply reference
withoutReplyKept(params) == params

\* "delete params.reply_to_message_id"
withoutReply(params) == [params EXCEPT !.reply_to_message_id = NoReply]

\* the descriptions of a rejection, as the phrases they are made of;
\* <<>> is a response without description
NoDescription == <<>>
Descriptions ==
  {<<"Bad Request: ", "message to be replied not found">>,
   <<"Bad Request: ", "MESSAGE_ID_INVALID">>,
   <<"Forbidden: ", "bot was blocked by the user">>,
   NoDescription}

\* description?.includes(phrase)
includes(description, phrase) ==
  \E i \in 1 .. Len(description) : description[i] = phrase

\* mutant of isReplyNotFound: every rejection is retried
isReplyNotFoundAlways(description) == TRUE

\* "data.description?.includes('message to be replied not found') ||
\*  data.description?.includes('MESSAGE_ID_INVALID')"
isReplyNotFound(description) ==
  \/ includes(description, "message to be replied not found")
  \/ includes(description, "MESSAGE_ID_INVALID")

\* what a sendMessage request comes back with: ok, a rejection with its
\* description, or no response within TELEGRAM_TIMEOUT
SendOutcomes ==
  {[kind |-> "ok", description |-> NoDescription],
   [kind |-> "timeout", description |-> NoDescription]}
  \cup {[kind |-> "rejected", description |-> description] : description \in Descriptions}

\* no error thrown, and "throw new Error(message)"
NoError == [thrown |-> FALSE, message |-> <<>>]
Error(message) == [thrown |-> TRUE, message |-> message]

\* "new Error(data.description || 'Telegram API error')"
rejectionError(description) ==
  Error(IF description = NoDescription THEN <<"Telegram API error">> ELSE description)

\* before the call
startSendTelegramMessage(token, chatId, text, replyToMessageId) ==
  [pc |-> "sendTelegramMessage", token |-> token, chatId |-> chatId,
   text |-> text, replyToMessageId |-> replyToMessageId,
   params |-> sendParams(chatId, text, replyToMessageId),
   sent |-> <<>>, result |-> "none", error |-> NoError]

\* sendTelegramMessage up to the response to its first request
SendTelegramMessage ==
  /\ run.pc = "sendTelegramMessage"
  /\ IF ~run.token
     THEN run' = [run EXCEPT !.pc = "done", !.error = Error(<<"Bot token missing">>)]
     ELSE \E out \in SendOutcomes :
       LET r1 == [run EXCEPT !.sent = Append(@, [params |-> run.params, result |-> out])] IN
       run' = CASE out.kind = "ok" -> [r1 EXCEPT !.pc = "done", !.result = "result"]
                [] out.kind = "timeout" -> [r1 EXCEPT !.pc = "done", !.error = Error(<<"Request timeout">>)]
                [] OTHER ->
                     IF isReplyNotFound(out.description)
                     THEN [r1 EXCEPT !.pc = "retry", !.params = withoutReply(@)]
                     ELSE [r1 EXCEPT !.pc = "done",
                                     !.error = rejectionError(out.description)]
  /\ UNCHANGED <<now, rlVars, smVars, runs, fmtVars>>

\* the second request of sendTelegramMessage and its response
SendTelegramMessageRetry ==
  /\ run.pc = "retry"
  /\ \E out \in SendOutcomes :
       LET r1 == [run EXCEPT !.sent = Append(@, [params |-> run.params, result |-> out])] IN
       run' = CASE out.kind = "ok" -> [r1 EXCEPT !.pc = "done", !.result = "result"]
                [] out.kind = "timeout" -> [r1 EXCEPT !.pc = "done", !.error = Error(<<"Request timeout">>)]
                [] OTHER -> [r1 EXCEPT !.pc = "done",
                                       !.error = Error(out.description)]
  /\ UNCHANGED <<now, rlVars, smVars, runs, fmtVars>>

InitDebug ==
  /\ now = 0
  /\ requests = [u \in Users |-> <<>>]
  /\ rlCalls = 0
  /\ winStart = [u \in Users |-> -1]
  /\ winCalls = [u \in Users |-> 0]
  /\ lastOk = [u \in Users |-> FALSE]
  /\ sessions = <<>>
  /\ smLast = NoCall
  /\ run \in {startSendTelegramMessage(token, chatId, text, replyToMessageId) :
                token \in BOOLEAN, chatId \in DebugChats, text \in DebugTexts,
                replyToMessageId \in DebugReplies}
  /\ runs = 0
  /\ fmt = startFormat(<<>>)

NextDebug ==
  \/ SendTelegramMessage
  \/ SendTelegramMessageRetry

SpecDebug == InitDebug /\ [][NextDebug]_vars


\* ------------------------------------------------------------------------
\* SpecInterleave: two runs of handleMessage for the same user on one
\* instance.  run is the pair of the two runs; each await of a run is a
\* step at which the other run can be scheduled.  Every pending request
\* eventually returns, fails or hits its timeout (fetchWithTimeout), so a
\* run that can take a step eventually takes it.
\* ------------------------------------------------------------------------
InterleaveUser == 1
InterleaveRuns == {1, 2}
\* the AI answers explored here: a short text without images
InterleaveAnswers == {a \in Answers : a.text = "short" /\ a.images = 0 /\ ~a.bad}

\* handleMessage from the response to sendChatAction up to the await of
\* getDifyResponse, for run r on limiter windows reqs and store S at instant t
typingStep(r, out, reqs, S, t) ==
  IF out = "ok"
  THEN LET r1 == [r EXCEPT !.timer = TRUE]
           S1 == getUserSession(S, r.userId, t)
       IN IF ~isAllowedResult(reqs, r.userId, t)
             \/ (~r.isBusiness /\ r.chatType # "private")
          THEN [run |-> finish([r1 EXCEPT !.timer = FALSE], "rejected"),
                requests |-> isAllowedRequests(reqs, r.userId, t), sessions |-> S]
          ELSE [run |-> [r1 EXCEPT !.pc = "dify", !.attempt = 1,
                                   !.conversationId = get(S1, r.userId).conversationId],
                requests |-> isAllowedRequests(reqs, r.userId, t), sessions |-> S1]
  ELSE [run |-> IF lastAttempt(r.attempt) THEN catchBlock(r)
                ELSE [r EXCEPT !.attempt = @ + 1],
        requests |-> reqs, sessions |-> S]

\* handleMessage from the outcome of one request of getDifyResponse up to the
\* first await of sendFormattedMessage
difyStep(r, out, answer, conversation_id, S, t) ==
  LET r1 == [r EXCEPT !.difyLog = Append(@,
               [conversation_id |-> r.conversationId, result |-> out,
                returned |-> IF out = "ok" THEN conversation_id ELSE "",
                waited |-> IF out = "ok" THEN 0 ELSE waitedAfter(r.attempt)])] IN
  IF out = "ok"
  THEN [run |-> enterSendFormatted(r1, "main", answer),
        sessions |-> IF conversation_id # ""
                     THEN updateUserSession(S, r.userId, conversation_id, t)
                     ELSE S]
  ELSE [run |-> IF lastAttempt(r.attempt) THEN catchBlock([r1 EXCEPT !.error = out])
                ELSE [r1 EXCEPT !.attempt = @ + 1],
        sessions |-> S]

\* run k: the response to sendChatAction
TypingOf(k) ==
  /\ run[k].pc = "typing"
  /\ \E out \in {"ok", "fail"} :
       /\ run' = [run EXCEPT ![k] = typingStep(run[k], out, requests, sessions, now).run]
       /\ requests' = typingStep(run[k], out, requests, sessions, now).requests
       /\ sessions' = typingStep(run[k], out, requests, sessions, now).sessions
  /\ UNCHANGED <<now, rlCalls, winStart, winCalls, lastOk, smLast, runs, fmtVars>>

\* run k: the outcome of one request of getDifyResponse
DifyOf(k) ==
  /\ run[k].pc = "dify"
  /\ \E out \in {"ok", "timeout", "error"} :
       \E answer \in IF out = "ok" THEN InterleaveAnswers ELSE {NotUnderstood},
          conversation_id \in IF out = "ok" THEN Tokens \cup {""} ELSE {""} :
         /\ run' = [run EXCEPT ![k] =
                      difyStep(run[k], out, answer, conversation_id, sessions, now).run]
         /\ sessions' = difyStep(run[k], out, answer, conversation_id, sessions, now).sessions
  /\ UNCHANGED <<now, rlVars, smLast, runs, fmtVars>>

\* run k: the outcome of the telegramApiCall its sendFormattedMessage waits for
SendFormattedOf(k) ==
  /\ run[k].pc \in SendFormattedSites
  /\ \E out \in telegramOutcomes(run[k], sendFormattedParams(run[k])) :
       run' = [run EXCEPT ![k] =
                 sendFormattedRequest(run[k], sendFormattedParams(run[k]), out)]
  /\ UNCHANGED <<now, rlVars, smVars, runs, fmtVars>>

\* the stores the two runs can find: empty, or the user's earlier session
InterleaveStores == {<<>>, updateUserSession(<<>>, InterleaveUser, "xyz", 0)}

InitInterleave ==
  /\ now = 0
  /\ requests = [u \in Users |-> <<>>]
  /\ rlCalls = 0
  /\ winStart = [u \in Users |-> -1]
  /\ winCalls = [u \in Users |-> 0]
  /\ lastOk = [u \in Users |-> FALSE]
  /\ sessions \in InterleaveStores
  /\ smLast = NoCall
  /\ run = [k \in InterleaveRuns |-> startHandleMessage(InterleaveUser, FALSE, "private")]
  /\ runs = 2
  /\ fmt = startFormat(<<>>)

NextInterleave ==
  \E k \in InterleaveRuns :
    \/ TypingOf(k)
    \/ DifyOf(k)
    \/ SendFormattedOf(k)

SpecInterleave ==
  /\ InitInterleave
  /\ [][NextInterleave]_vars
  /\ \A k \in InterleaveRuns : WF_vars(TypingOf(k) \/ DifyOf(k) \/ SendFormattedOf(k))


\* ------------------------------------------------------------------------
\* SpecQueue: the queue variant (src/unnamed/part_002).  The webhook handler
\* pushes each accepted message on a list in the KV store and triggers the
\* process endpoint, whose processQueue pops and processes the items under a
\* "processing" flag.  run holds the KV store (kv), the position of the
\* webhook handler of each message (webhook), the processQueue run each
\* trigger started (process) and the ids of the items handed to
\* processQueueItem (handed).  Every await is a step; KV operations succeed.
\* ------------------------------------------------------------------------
\* CONSTANTS.MAX_QUEUE_SIZE
MAX_QUEUE_SIZE == 1000
\* "const maxProcess = 10"
maxProcess == 10
\* "{ ex: 50 }": the processing flag expires after 50 seconds (in ms)
ProcessingExpiry == 50000
\* PROCESS_CONSTANTS.DIFY_TIMEOUT
DIFY_TIMEOUT == 55000
\* "Date.now() - item.timestamp > 300000"
OldItemAge == 300000

Messages == 1 .. MaxMessages

\* kv.lpush(key, item): the item becomes the head of the list
lpush(list, item) == <<item>> \o list

\* kv.ltrim(key, start, stop): keeps the elements at the zero-based indexes
\* start .. stop, both included
ltrim(list, start, stop) ==
  SubSeq(list, start + 1, IF stop + 1 < Len(list) THEN stop + 1 ELSE Len(list))

\* kv.rpop(key): the last element of the list, and the list without it
rpop(list) == list[Len(list)]
afterRpop(list) == SubSeq(list, 1, Len(list) - 1)

\* the processing key: absent, or set with the instant at which it expires
NoFlag == [set |-> FALSE, expires |-> 0]
\* kv.set(PROCESSING_KEY, true, { ex: 50 }) at instant t
setFlag(t) == [set |-> TRUE, expires |-> t + ProcessingExpiry]
\* kv.get(PROCESSING_KEY) at instant t
getFlag(flag, t) == flag.set /\ t < flag.expires

\* the queue item addToQueue builds for message m at instant t
queueItem(m, t) == [id |-> m, timestamp |-> t, status |-> "pending"]

\* a processQueue run: not triggered yet
NoProcess == [pc |-> "none", processed |-> 0, item |-> 0, result |-> "none"]

\* what an update holds: a text message of a private chat, of a business
\* connection, of a group, or no text message
Updates == {"private", "business", "group", "other"}

\* the webhook handler up to the await of kv.lpush in addToQueue (the
\* requests readBusinessMessage and sendChatAction are caught when they fail);
\* the messages are numbered in the order in which they arrive
WebhookHandler(m) ==
  /\ run.webhook[m] = "idle"
  /\ \A k \in Messages : k < m => run.webhook[k] # "idle"
  /\ \E update \in Updates :
       run' = [run EXCEPT !.webhook[m] =
                 IF update \in {"private", "business"} THEN "lpush" ELSE "done"]
  /\ UNCHANGED <<now, rlVars, smVars, runs, fmtVars>>

\* addToQueue: "await kv.lpush(CONSTANTS.QUEUE_KEY, JSON.stringify(queueItem))"
AddToQueue(m) ==
  /\ run.webhook[m] = "lpush"
  /\ run' = [run EXCEPT !.kv.queue = lpush(@, queueItem(m, now)),
                        !.webhook[m] = "ltrim"]
  /\ UNCHANGED <<now, rlVars, smVars, runs, fmtVars>>

\* addToQueue: "await kv.ltrim(CONSTANTS.QUEUE_KEY, 0, CONSTANTS.MAX_QUEUE_SIZE)",
\* then triggerProcessing: the request to the process endpoint is sent and
\* not waited for, and the handler answers 200
AddToQueueTrim(m) ==
  /\ run.webhook[m] = "ltrim"
  /\ run' = [run EXCEPT !.kv.queue = ltrim(@, 0, MAX_QUEUE_SIZE),
                        !.webhook[m] = "done",
                        !.process[m] = [NoProcess EXCEPT !.pc = "get"]]
  /\ UNCHANGED <<now, rlVars, smVars, runs, fmtVars>>

\* processQueue: "const isProcessing = await kv.get(PROCESSING_KEY)"
ProcessQueue(p) ==
  /\ run.process[p].pc = "get"
  /\ run' = IF getFlag(run.kv.processing, now)
            THEN [run EXCEPT !.process[p].pc = "done",
                             !.process[p].result = "Already processing"]
            ELSE [run EXCEPT !.process[p].pc = "set"]
  /\ UNCHANGED <<now, rlVars, smVars, runs, fmtVars>>

\* processQueue: "await kv.set(PROCESSING_KEY, true, { ex: 50 })"
ProcessQueueSet(p) ==
  /\ run.process[p].pc = "set"
  /\ run' = [run EXCEPT !.kv.processing = setFlag(now),
                        !.process[p].pc = "rpop"]
  /\ UNCHANGED <<now, rlVars, smVars, runs, fmtVars>>

\* processQueue: "const itemJson = await kv.rpop(QUEUE_KEY)" and the code up
\* to the call of processQueueItem
ProcessQueuePop(p) ==
  /\ run.process[p].pc = "rpop"
  /\ run' = IF run.kv.queue = <<>>
            THEN [run EXCEPT !.process[p].pc = "finally"]
            ELSE IF now - rpop(run.kv.queue).timestamp > OldItemAge
            THEN [run EXCEPT !.kv.queue = afterRpop(@)]
            ELSE [run EXCEPT !.kv.queue = afterRpop(@),
                             !.process[p].pc = "item",
                             !.process[p].item = rpop(run.kv.queue).id,
                             !.handed = Append(@, rpop(run.kv.queue).id)]
  /\ UNCHANGED <<now, rlVars, smVars, runs, fmtVars>>

\* processQueue: "await processQueueItem(item); processed++"
ProcessQueueItem(p) ==
  /\ run.process[p].pc = "item"
  /\ run' = [run EXCEPT !.process[p].pc = "delay", !.process[p].processed = @ + 1]
  /\ UNCHANGED <<now, rlVars, smVars, runs, fmtVars>>

\* processQueue: the delay of 100 ms between items and the loop condition
ProcessQueueDelay(p) ==
  /\ run.process[p].pc = "delay"
  /\ run' = [run EXCEPT !.process[p].pc =
               IF run.process[p].processed < maxProcess THEN "rpop" ELSE "finally"]
  /\ UNCHANGED <<now, rlVars, smVars, runs, fmtVars>>

\* processQueue: "finally { await kv.del(PROCESSING_KEY) }"
ProcessQueueFinally(p) ==
  /\ run.process[p].pc = "finally"
  /\ run' = [run EXCEPT !.kv.processing = NoFlag,
                        !.process[p].pc = "done",
                        !.process[p].result = "Queue processed"]
  /\ UNCHANGED <<now, rlVars, smVars, runs, fmtVars>>

\* time passes: while a run waits for processQueueItem, as long as one AI
\* call may take; while no handler and no run is under way, until an item is
\* older than processQueue accepts.  The KV operations take no time.
QueueTick ==
  /\ now < MaxQueueTicks * DIFY_TIMEOUT
  /\ \E step \in
       (IF \E p \in Messages : run.process[p].pc = "item"
        THEN {DIFY_TIMEOUT} ELSE {})
       \cup (IF \A m \in Messages : /\ run.webhook[m] \in {"idle", "done"}
                                    /\ run.process[m].pc \in {"none", "done"}
             THEN {OldItemAge + DIFY_TIMEOUT} ELSE {}) :
       now' = now + step
  /\ UNCHANGED <<rlVars, smVars, relayVars, fmtVars>>

\* the queue variant at rest, the list holding the given items
queueAtRest(queue) ==
  [kv |-> [queue |-> queue, processing |-> NoFlag],
   webhook |-> [m \in Messages |-> "idle"],
   process |-> [m \in Messages |-> NoProcess],
   handed |-> <<>>]

InitQueue ==
  /\ now = 0
  /\ requests = [u \in Users |-> <<>>]
  /\ rlCalls = 0
  /\ winStart = [u \in Users |-> -1]
  /\ winCalls = [u \in Users |-> 0]
  /\ lastOk = [u \in Users |-> FALSE]
  /\ sessions = <<>>
  /\ smLast = NoCall
  /\ run = queueAtRest(<<>>)
  /\ runs = 0
  /\ fmt = startFormat(<<>>)

\* a step of the webhook handler of message m
WebhookStep(m) ==
  \/ WebhookHandler(m)
  \/ AddToQueue(m)
  \/ AddToQueueTrim(m)

\* a step of the processQueue run p
ProcessStep(p) ==
  \/ ProcessQueue(p)
  \/ ProcessQueueSet(p)
  \/ ProcessQueuePop(p)
  \/ ProcessQueueItem(p)
  \/ ProcessQueueDelay(p)
  \/ ProcessQueueFinally(p)

NextQueue ==
  \/ \E m \in Messages : WebhookStep(m)
  \/ \E p \in Messages : ProcessStep(p)
  \/ QueueTick

SpecQueue == InitQueue /\ [][NextQueue]_vars

\* SpecQueueFull: the queue variant with a backlog, earlier messages that
\* were queued and not processed yet, within one clock instant
Backlog(n) == [i \in 1 .. n |-> queueItem(0, 0)]

InitQueueFull ==
  /\ now = 0
  /\ requests = [u \in Users |-> <<>>]
  /\ rlCalls = 0
  /\ winStart = [u \in Users |-> -1]
  /\ winCalls = [u \in Users |-> 0]
  /\ lastOk = [u \in Users |-> FALSE]
  /\ sessions = <<>>
  /\ smLast = NoCall
  /\ run \in {queueAtRest(Backlog(n)) : n \in {MAX_QUEUE_SIZE - 1, MAX_QUEUE_SIZE}}
  /\ runs = 0
  /\ fmt = startFormat(<<>>)

NextQueueFull ==
  \/ \E m \in Messages : WebhookStep(m)
  \/ \E p \in Messages : ProcessStep(p)

SpecQueueFull == InitQueueFull /\ [][NextQueueFull]_vars

\* SpecQueueLive: SpecQueue with every KV operation, request and delay
\* ending: a webhook handler or processQueue run that waits at an await
\* eventually takes its next step
SpecQueueLive ==
  /\ InitQueue
  /\ [][NextQueue]_vars
  /\ \A m \in Messages :
       /\ WF_vars(AddToQueue(m) \/ AddToQueueTrim(m))
       /\ WF_vars(ProcessStep(m))

\* the user's stored conversationId ("" without a session)
tokenOf(u) == IF has(sessions, u) THEN get(sessions, u).conversationId ELSE ""

\* the positions of the run's send requests, in the order they were made
Sent == 1 .. Len(run.sent)

\* C4: once handleMessage has finished, on whatever exit path, the typing
\* interval it started is no longer active.
C4_TimerCancelledOnExit == run.pc = "done" => ~run.timer

\* the interval was started and fired, the AI call failed and the fallback
\* send failed too
C4_Witness ==
  /\ run.pc = "done" /\ run.result = "failed"
  /\ run.ticks >= 1 /\ ~run.timer
  /\ Len(run.difyLog) = RETRY_ATTEMPTS
  /\ run.sfmThrew

\* C5: a configured POST update that carries a message or business_message is
\* answered with HTTP 200 and with nothing else, whatever happened to the AI
\* call, the delivery and the fallback send.
C5_MessageUpdateAnswered200 ==
  run.body \in {"message", "business_message"} =>
    run.status = (IF run.pc = "done" THEN 200 ELSE 0)

\* the AI call failed, the delivery of the fallback message threw, and the
\* caller still got 200
C5_Witness ==
  /\ run.pc = "done" /\ run.status = 200
  /\ run.body = "message"
  /\ run.result = "failed" /\ run.sfmThrew
  /\ \E i \in 1 .. Len(run.difyLog) : run.difyLog[i].result = "error"

\* C6: a text send rejected for malformed markup is followed by exactly one
\* send of the same text without parse_mode, and when that send succeeds the
\* answer is delivered.
C6_MarkupRejectionRetriedPlain ==
  ( /\ run.pc = "done"
    /\ \E i \in Sent : run.sent[i].method = "sendMessage" /\ run.sent[i].result = "markup" )
    => LET plain == {i \in Sent : /\ run.sent[i].method = "sendMessage"
                                  /\ run.sent[i].text = "answer"
                                  /\ ~run.sent[i].parse_mode} IN
       /\ Cardinality(plain) = 1
       /\ \A i \in plain : run.sent[i].result = "ok" => run.result = "delivered"

\* C7: the final fallback send of sendFormattedMessage carries the fixed
\* failure text without parse_mode and without reply reference, and its
\* failure does not make sendFormattedMessage throw.
C7_FinalFallbackPlainAndContained ==
  /\ \A i \in Sent :
       run.sent[i].text = "sorry" => (~run.sent[i].parse_mode /\ ~run.sent[i].reply)
  /\ ~run.sfmThrew

\* C8: a run that ends Failed has made exactly one send request in its catch
\* block, carrying FALLBACK_MESSAGE without parse_mode.
C8_FailedSendsOnePlainFallback ==
  (run.pc = "done" /\ run.result = "failed")
    => LET inCatch == {i \in Sent : run.sent[i].phase = "failed"} IN
       /\ Cardinality(inCatch) = 1
       /\ \A i \in inCatch : /\ run.sent[i].text = "FALLBACK_MESSAGE"
                             /\ ~run.sent[i].parse_mode

\* C9: when the AI call ended by timeout, the user was sent the synthesized
\* "took too long" answer and the session's conversationId is what it was
\* before the run.
C9_TimeoutAnswerAndTokenKept ==
  ( /\ run.pc = "done"
    /\ run.difyLog # <<>>
    /\ run.difyLog[Len(run.difyLog)].result = "timeout" )
    => /\ \E i \in Sent : run.sent[i].text = "tookTooLong" /\ run.sent[i].result = "ok"
       /\ tokenOf(run.userId) = run.tokenBefore

\* C10: an AI backend request that hit the timeout is the last AI backend
\* request of its inbound message.
C10_NoRequestAfterTimeout ==
  \A i \in 1 .. Len(run.difyLog) :
    run.difyLog[i].result = "timeout" => i = Len(run.difyLog)

\* the positions of the run's AI backend requests, in the order they were made
Asked == 1 .. Len(run.difyLog)

\* C11: retryOperation around the AI request makes at most RETRY_ATTEMPTS
\* requests per inbound message; a successful request is the last one and its
\* result is what handleMessage goes on with; a failed attempt number k that is
\* not the last is followed by a wait of RETRY_DELAY * 2^(k-1); the failure of
\* attempt RETRY_ATTEMPTS is thrown at once and is the error handleMessage
\* catches.
C11_RetryAtMostTwiceWithBackoff ==
  /\ Len(run.difyLog) <= RETRY_ATTEMPTS
  /\ \A i \in Asked :
       LET a == run.difyLog[i] IN
       /\ a.result = "ok" => (i = Len(run.difyLog) /\ run.error = "none" /\ a.waited = 0)
       /\ (a.result # "ok" /\ i < RETRY_ATTEMPTS) =>
            /\ a.waited = RETRY_DELAY * 2^(i - 1)
            /\ (i = Len(run.difyLog) => (run.pc = "dify" /\ run.attempt = i + 1))
       /\ (a.result # "ok" /\ i = RETRY_ATTEMPTS) =>
            /\ a.waited = 0
            /\ run.error = a.result
            /\ run.phase = "failed"
  /\ (run.error # "none") => Len(run.difyLog) = RETRY_ATTEMPTS

\* the first request failed, the second one was made after the wait and
\* succeeded, and its answer was delivered
C11_Witness ==
  /\ run.pc = "done" /\ run.result = "delivered"
  /\ Len(run.difyLog) = 2
  /\ run.difyLog[1].result = "error" /\ run.difyLog[1].waited = RETRY_DELAY
  /\ run.difyLog[2].result = "ok"

\* the answer "hi!"
Hi == <<"h", "i", "!">>

\* C12: a private-chat message from a user without a session creates a session
\* with empty conversationId; when the AI backend then answers the first
\* request with a short plain answer and conversation_id "abc" and the
\* platform accepts every send request, the AI was asked exactly once with the
\* empty conversation_id, the session's conversationId is "abc", and exactly
\* one send request was made: a sendMessage with the answer's text.  "hi!" is
\* such an answer: MessageFormatter finds no image in it and leaves its text
\* as it is.
C12_FirstMessageEndToEnd ==
  LET u == run.userId
      fresh == run.body = "message" /\ run.chatType = "private" /\ ~run.hadSession
  IN
  /\ (fresh /\ run.pc = "dify" /\ run.difyLog = <<>>) =>
       /\ has(sessions, u)
       /\ get(sessions, u).conversationId = "" /\ get(sessions, u).requestCount = 0
       /\ run.conversationId = ""
  /\ ( /\ fresh /\ run.pc = "done"
       /\ run.difyLog # <<>>
       /\ run.difyLog[1].result = "ok" /\ run.difyLog[1].returned = "abc"
       /\ run.proc.text = "answer" /\ ~run.proc.long /\ run.proc.images = 0
       /\ \A i \in Sent : run.sent[i].result = "ok" )
     => /\ Len(run.difyLog) = 1
        /\ run.difyLog[1].conversation_id = ""
        /\ has(sessions, u) /\ get(sessions, u).conversationId = "abc"
        /\ Len(run.sent) = 1
        /\ run.sent[1].method = "sendMessage" /\ run.sent[1].text = "answer"
        /\ ~run.sent[1].truncated
        /\ run.result = "delivered"
        /\ processDifyResponseText(Hi) =
             [text |-> Hi, imageUrls |-> <<>>, hasImages |-> FALSE, useMarkdown |-> TRUE]
        /\ validateTelegramMarkdown(Hi) = [isValid |-> TRUE, cleaned |-> Hi]

\* the scenario ran to its end: one AI request, one accepted text message
C12_Witness ==
  /\ run.pc = "done" /\ run.result = "delivered"
  /\ run.body = "message" /\ run.chatType = "private" /\ ~run.hadSession
  /\ Len(run.difyLog) = 1 /\ run.difyLog[1].returned = "abc"
  /\ run.proc.text = "answer" /\ ~run.proc.long /\ run.proc.images = 0
  /\ Len(run.sent) = 1 /\ run.sent[1].result = "ok"
  /\ tokenOf(run.userId) = "abc"

\* C19: the store never holds two sessions of one userId, and a step changes
\* a user's conversationId only to the empty string or to the conversation_id
\* the AI backend returned in that step to a request of a run of that user
\* (so every stored non-empty conversationId was returned for its user).
C19_OneSessionPerUserTokenFromBackend ==
  /\ [](\A i, j \in 1 .. Len(sessions) : sessions[i].userId = sessions[j].userId => i = j)
  /\ [][\A u \in Users :
          \/ tokenOf(u)' \in {"", tokenOf(u)}
          \/ /\ run.pc = "dify" /\ run.userId = u /\ run'.userId = u
             /\ Len(run'.difyLog) = Len(run.difyLog) + 1
             /\ run'.difyLog[Len(run'.difyLog)].result = "ok"
             /\ run'.difyLog[Len(run'.difyLog)].returned = tokenOf(u)']_vars

\* both users hold a session; user 1's conversationId was replaced in this
\* run by the conversation_id the run was given, user 2's is untouched
C19_Witness ==
  /\ Len(sessions) = 2
  /\ run.userId = 1 /\ run.pc = "done"
  /\ run.hadSession /\ run.tokenBefore = "xyz"
  /\ run.difyLog # <<>>
  /\ run.difyLog[Len(run.difyLog)].returned = "abc"
  /\ tokenOf(1) = "abc" /\ tokenOf(2) = "xyz"

\* the run went through the image branch of sendFormattedMessage for the AI
\* answer and handleMessage has returned
imageRunDone ==
  /\ run.pc = "done" /\ run.phase = "main"
  /\ run.proc.hasImages /\ run.proc.images > 0

\* C27: in the image branch the caption sent with the first image is never
\* longer than 1000 characters; the full text is sent as a follow-up message
\* exactly when the text was longer than that, and every image send precedes
\* the follow-up.
C27_CaptionBoundedFollowUpAfterImages ==
  /\ \A i \in Sent :
       run.sent[i].method = "sendPhoto" => run.sent[i].captionLength <= CaptionLimit
  /\ \A i \in Sent :
       run.sent[i].site = "fulltext"
         => /\ textLength(run.proc) > CaptionLimit
            /\ run.sent[i].method = "sendMessage" /\ run.sent[i].text = run.proc.text
            /\ \A j \in Sent : run.sent[j].method = "sendPhoto" => j < i
  /\ (imageRunDone /\ textLength(run.proc) > CaptionLimit)
       => \E i \in Sent : run.sent[i].site = "fulltext"

\* two images and a text of 1001 characters: the first image went out with a
\* cut caption of 1000, the second after it, the full text last
C27_Witness ==
  /\ imageRunDone
  /\ run.proc.images = 2 /\ textLength(run.proc) = CaptionLimit + 1
  /\ Len(run.sent) = 3
  /\ run.sent[1].site = "photo1" /\ run.sent[1].truncated
  /\ run.sent[1].captionLength = CaptionLimit
  /\ run.sent[2].site = "photoN"
  /\ run.sent[3].site = "fulltext" /\ run.sent[3].result = "ok"

\* the images of the answer whose send was given up: the request of the last
\* attempt failed
givenUp == {run.sent[i].idx : i \in {j \in Sent : /\ run.sent[j].method = "sendPhoto"
                                                   /\ run.sent[j].result # "ok"
                                                   /\ run.sent[j].attempt = RETRY_ATTEMPTS}}

\* C28: when the send of an image other than the first has failed, no
\* fallback failure message is sent, and once the delivery is over a send was
\* attempted for every image of the answer and for the follow-up text (if the
\* text was too long for the caption), and sendFormattedMessage returned
\* success.
C28_LaterImageFailureContained ==
  (\E k \in givenUp : k > 1)
    => /\ \A i \in Sent : run.sent[i].text \notin {"sorry", "FALLBACK_MESSAGE"}
       /\ ~run.sfmThrew
       /\ run.pc \notin {"final", "handlerSend"}
       /\ run.pc = "done"
            => /\ run.result = "delivered"
               /\ \A k \in 1 .. run.proc.images :
                    \E i \in Sent : run.sent[i].method = "sendPhoto" /\ run.sent[i].idx = k
               /\ textLength(run.proc) > CaptionLimit
                    => \E i \in Sent : run.sent[i].site = "fulltext"

\* three images and a long text: the second image was given up after its
\* last attempt, the third image and the follow-up text went out
C28_Witness ==
  /\ imageRunDone /\ run.result = "delivered"
  /\ run.proc.images = 3 /\ textLength(run.proc) > CaptionLimit
  /\ givenUp = {2}
  /\ Len(run.sent) = 5
  /\ run.sent[4].site = "photoN" /\ run.sent[4].idx = 3 /\ run.sent[4].result = "ok"
  /\ run.sent[5].site = "fulltext" /\ run.sent[5].result = "ok"

\* C29: for one answer at most 10 images beyond the first one are sent.
C29_AtMostTenFurtherImages ==
  Cardinality({run.sent[i].idx : i \in {j \in Sent : run.sent[j].site = "photoN"}}) <= 10

\* handleMessage is handling, or has handled, a message that is not to be
\* answered: its sender is denied by the RateLimiter or its chat is neither
\* private nor a business channel
notAdmitted(r) ==
  /\ r.pc \notin {"idle", "handlerSend"} /\ r.result # "escaped"
  /\ r.body \in {"message", "business_message"}
  /\ \/ ~isAllowedResult(requests, r.userId, now)
     \/ ~r.isBusiness /\ r.chatType # "private"

\* C30: for a message whose sender the RateLimiter denies or whose chat is
\* neither private nor a business channel, handleMessage sends no text to the
\* chat, makes no AI backend request, and leaves the sessions as they are.
C30_NotAdmittedIsSilent ==
  /\ [](notAdmitted(run)
          => /\ \A i \in Sent : run.sent[i].method # "sendMessage"
             /\ run.difyLog = <<>>)
  /\ [][notAdmitted(run)' => sessions' = sessions]_vars

\* C31: the query text of every request getDifyResponse sends to the AI
\* backend is at most 4000 characters long, truncation marker included.
C31_QueryAtMostLimit ==
  \A i \in Asked : run.difyLog[i].query <= QueryLimit

\* the first send was rejected because the replied-to message no longer exists
staleReference(entry) ==
  /\ entry.result.kind = "rejected"
  /\ entry.result.description \in
       {<<"Bad Request: ", "message to be replied not found">>,
        <<"Bad Request: ", "MESSAGE_ID_INVALID">>}

\* C32: in sendTelegramMessage of the debug variant, when the first send is
\* rejected because the replied-to message no longer exists, exactly one more
\* send is made, with the same chat and text and without the reply reference;
\* its success is returned, its failure is thrown, and there is never a third
\* send.  After any other rejection no further send is made.
C32_StaleReferenceRetriedOnce ==
  /\ Len(run.sent) <= 2
  /\ Len(run.sent) >= 1 /\ staleReference(run.sent[1]) =>
       /\ run.pc = "retry" \/ Len(run.sent) = 2
       /\ run.pc = "retry" => Len(run.sent) = 1
  /\ Len(run.sent) = 2 =>
       /\ staleReference(run.sent[1])
       /\ run.sent[2].params.chat_id = run.sent[1].params.chat_id
       /\ run.sent[2].params.text = run.sent[1].params.text
       /\ run.sent[2].params.reply_to_message_id = NoReply
       /\ run.pc = "done"
       /\ IF run.sent[2].result.kind = "ok"
          THEN run.result = "result" /\ ~run.error.thrown
          ELSE run.result = "none" /\ run.error.thrown
  /\ Len(run.sent) >= 1 /\ ~staleReference(run.sent[1]) =>
       /\ Len(run.sent) = 1
       /\ run.pc = "done"
       /\ run.sent[1].result.kind # "ok" => run.result = "none" /\ run.error.thrown

\* a reply to a vanished message was retried without the reference and
\* delivered
C32_Witness ==
  /\ run.pc = "done"
  /\ Len(run.sent) = 2
  /\ run.sent[1].params.reply_to_message_id # NoReply
  /\ run.sent[2].result.kind = "ok"
  /\ run.result = "result"

\* the sessions the store holds for user u
sessionsOf(u) == {i \in 1 .. Len(sessions) : sessions[i].userId = u}

\* run r has looked its session up and started the AI call
reachedAI(r) == r.pc = "dify" \/ r.difyLog # <<>>

\* run r was given a non-empty conversation_id by the AI backend
receivedToken(r) ==
  \E i \in 1 .. Len(r.difyLog) : r.difyLog[i].result = "ok" /\ r.difyLog[i].returned # ""

\* C33: two runs of handleMessage for one user that interleave at their AI
\* call both complete; once a run has reached the AI call the store holds
\* exactly one session for the user; the conversationId changes exactly when
\* a run is given a non-empty conversation_id, and then to that token (last
\* write wins); it is never empty once a run was given a non-empty token.
C33_LastWriteWins ==
  /\ [](/\ Cardinality(sessionsOf(InterleaveUser)) <= 1
        /\ (\E k \in InterleaveRuns : reachedAI(run[k])) =>
              Cardinality(sessionsOf(InterleaveUser)) = 1
        /\ (\E k \in InterleaveRuns : receivedToken(run[k])) =>
              tokenOf(InterleaveUser) # "")
  /\ [][\A k \in InterleaveRuns :
          LET last == run'[k].difyLog[Len(run'[k].difyLog)] IN
          (run[k].pc = "dify" /\ Len(run'[k].difyLog) = Len(run[k].difyLog) + 1) =>
            IF last.result = "ok" /\ last.returned # ""
            THEN tokenOf(InterleaveUser)' = last.returned
            ELSE tokenOf(InterleaveUser)' = tokenOf(InterleaveUser)]_vars
  /\ [][(\A k \in InterleaveRuns : Len(run'[k].difyLog) = Len(run[k].difyLog)) =>
          tokenOf(InterleaveUser)' = tokenOf(InterleaveUser)]_vars
  /\ <>(\A k \in InterleaveRuns : run[k].pc = "done")

\* both runs started their AI call on the empty token, run 1 was given "abc"
\* and run 2 afterwards "xyz": the store holds "xyz"
C33_Witness ==
  /\ \A k \in InterleaveRuns : run[k].pc = "done" /\ run[k].result = "delivered"
  /\ \A k \in InterleaveRuns : run[k].conversationId = "" /\ Len(run[k].difyLog) = 1
  /\ run[1].difyLog[1].returned = "abc"
  /\ run[2].difyLog[1].returned = "xyz"
  /\ Cardinality(sessionsOf(InterleaveUser)) = 1
  /\ tokenOf(InterleaveUser) = "xyz"
  /\ get(sessions, InterleaveUser).requestCount = 2

\* the admission check of run r passes: the limiter allows the user and the
\* message comes from a business connection or a private chat
admitted(r) ==
  /\ isAllowedResult(requests, r.userId, now)
  /\ r.isBusiness \/ r.chatType = "private"

\* the step is one request of the AI call of the run, and its outcome
aiRequest == run.pc = "dify" /\ Len(run'.difyLog) = Len(run.difyLog) + 1
aiResponse == aiRequest /\ run'.difyLog[Len(run'.difyLog)].result = "ok"

\* the sends of the run that deliver the AI answer, and those of the catch
\* block
answerSends == {i \in Sent : run.sent[i].phase = "main"}
fallbackSends == {i \in Sent : run.sent[i].phase = "failed"}

\* C35: a run of handleMessage passes its stages in the order admission
\* check, session lookup, AI call, session update, delivery: the session is
\* looked up and the AI call started only in the step that admits the
\* message; the store changes otherwise only in the step that receives the
\* run's successful AI response, before any send of the answer; the answer is
\* sent only after that response; and a run that made the AI call ends either
\* delivered, without a send of the catch block, or failed, without a
\* successful send of the answer.
C35_StagesInOrder ==
  /\ [][(run'.pc = "dify" /\ run.pc # "dify") =>
          (run.pc = "typing" /\ admitted(run) /\ has(sessions', run.userId))]_vars
  /\ [][aiRequest => has(sessions, run.userId)]_vars
  /\ [][(sessions' # sessions) =>
          \/ run.pc = "typing" /\ run'.pc = "dify" /\ admitted(run)
          \/ aiResponse /\ run.sent = <<>> /\ run'.sent = <<>>]_vars
  /\ [](answerSends # {} =>
          /\ run.difyLog # <<>>
          /\ run.difyLog[Len(run.difyLog)].result = "ok")
  /\ []((run.pc = "done" /\ run.difyLog # <<>>) =>
          \/ /\ run.result = "delivered"
             /\ fallbackSends = {}
             /\ run.difyLog[Len(run.difyLog)].result = "ok"
          \/ /\ run.result = "failed"
             /\ \A i \in answerSends : run.sent[i].result # "ok")

\* a first message went through all five stages: admitted, session created,
\* answered by the AI backend with a token the store now holds, delivered
C35_Witness ==
  /\ run.pc = "done" /\ run.result = "delivered"
  /\ ~run.hadSession
  /\ Len(run.difyLog) = 1 /\ run.difyLog[1].returned = "abc"
  /\ tokenOf(run.userId) = "abc"
  /\ \E i \in answerSends : run.sent[i].result = "ok"

\* C39: whenever sendFormattedMessage returns success for an answer with
\* images and a non-empty text, a successful send carried that text to the
\* chat platform, as the caption of the first image or as a text message.
C39_TextOfImageAnswerSent ==
  (/\ run.pc = "done" /\ run.result = "delivered"
   /\ run.proc.hasImages /\ run.proc.text # "") =>
    \E i \in Sent :
      /\ run.sent[i].result = "ok"
      /\ run.sent[i].text = run.proc.text
      /\ run.sent[i].site \in {"photo1", "fulltext", "text"}

\* C40: when the chat platform rejects a request with error code 400, 403 or
\* 404, telegramApiCall sends no second request: the request that follows a
\* rejected one in the run is the first attempt of another call.
C40_RejectionNotRetried ==
  \A i \in Sent :
    run.sent[i].result = "markup" =>
      /\ run.sent[i].attempt = 1
      /\ (i + 1) \in Sent => run.sent[i + 1].attempt = 1

\* the largest number of send requests of one run: two deliveries (the answer
\* and the fallback message) of a text and the failure text, or the images of
\* an answer and its text, each request made RETRY_ATTEMPTS times
sendBound ==
  RETRY_ATTEMPTS * (IF MaxImages + 1 > 4 THEN MaxImages + 1 ELSE 4)

\* C34: when every request eventually returns, fails or hits its timeout, a
\* webhook call that is being handled eventually ends, a run of handleMessage
\* as rejected, delivered or failed; a run makes at most RETRY_ATTEMPTS AI
\* backend requests and at most sendBound send requests, and a run waiting
\* for the AI backend eventually leaves that state.
C34_EveryRunEnds ==
  /\ [](Len(run.difyLog) <= RETRY_ATTEMPTS /\ Len(run.sent) <= sendBound)
  /\ [](run.pc = "done" /\ run.difyLog # <<>> => run.result \in {"delivered", "failed"})
  /\ (run.pc = "dify") ~> (run.pc # "dify")
  /\ (run.pc \notin {"idle", "done"}) ~> (run.pc = "done")

\* a run ended failed after the AI backend timed out RETRY_ATTEMPTS times and
\* every send of the fallback message failed
C34_Witness ==
  /\ run.pc = "done" /\ run.result = "failed" /\ run.sfmThrew
  /\ Len(run.difyLog) = RETRY_ATTEMPTS
  /\ \A i \in Asked : run.difyLog[i].result = "timeout"
  /\ Len(run.sent) = 2 * RETRY_ATTEMPTS
  /\ \A i \in Sent : run.sent[i].result = "fail"

\* the processQueue runs that are popping and processing queue items
activeRuns == {p \in Messages : run.process[p].pc \in {"rpop", "item", "delay"}}

\* C36: in the queue variant at most one processQueue run is popping and
\* processing queue items at any time.
C36_OneProcessQueueRunActive == Cardinality(activeRuns) <= 1

\* C37: in the queue variant the message queue holds at most MAX_QUEUE_SIZE
\* items after every addToQueue call.
C37_QueueAtMostMaxAfterAdd ==
  [][\A m \in Messages :
       (run.webhook[m] = "ltrim" /\ run'.webhook[m] = "done") =>
         Len(run'.kv.queue) <= MAX_QUEUE_SIZE]_vars

\* message m is in the queue; its item was handed to processQueueItem
queued(m) == \E i \in 1 .. Len(run.kv.queue) : run.kv.queue[i].id = m
handedOver(m) == \E i \in 1 .. Len(run.handed) : run.handed[i] = m

\* C38: in the queue variant every message the webhook placed in the queue
\* is eventually handed to processQueueItem, when the process endpoint is
\* triggered after each enqueue and every processing run ends.
C38_QueuedMessageProcessed ==
  \A m \in Messages : queued(m) ~> handedOver(m)
====
